---- MODULE Spec2Model ----
(***************************************************************************)
(* Reverse-replication job creation (reverserepl/create.go): the request   *)
(* normalizer validateAndUpdateJobData and the saga loop of CreateWorkflow *)
(* over the seven-activity catalog.                                        *)
(*                                                                         *)
(* Go strings are TLA+ strings, the Go nil error is the string Nil, and an *)
(* error value is its message.  Go's zero-based loop index i is kept as    *)
(* it is; TLA+ sequences are one-based, so the activity at index i is      *)
(* activities[i + 1].                                                      *)
(***************************************************************************)
EXTENDS Integers, Sequences, FiniteSets, TLC

VARIABLES
    pc,           \* position of CreateWorkflow
    rawRequest,   \* the JobData the caller passed (by value)
    request,      \* CreateWorkflow's own copy, the one validateAndUpdateJobData mutates
    uuid,         \* utils.GenerateHashStr() of this invocation
    normErr,      \* what validateAndUpdateJobData returned
    calls,        \* external calls made, in order
    activities,   \* the catalog, <<>> until it is constructed
    i,            \* loop index of the saga loop (zero-based)
    txLog,        \* names of the activities whose Transaction was invoked, in order
    txResults,    \* what each returned Transaction returned, in order
    compLog,      \* names of the activities whose Compensation was invoked, in order
    compErrs,     \* errors returned by Compensation calls, in order
    retErr,       \* what CreateWorkflow returned (meaningful when pc = "done")
    invocation,   \* 1 in the first invocation of CreateWorkflow, 2 in a re-run
    provisioned,  \* the change streams an earlier invocation left in place
    renormalized, \* whether validateAndUpdateJobData was applied once more, the
                  \* request it was then given and the error it returned
    \* the tuning resolver taken alone
    tuningIn,     \* the DataflowTuningConfig handed to validateUpdateReaderTuningCfg
    ambient,      \* the project, location and job id handed to it
    resolutions,  \* what each resolution of tuningIn left, in order
    again,        \* what resolving the first result once more left, << >> before
    \* the spanner emulator wrapper (package emulator)
    emuStartPc,   \* position of Start
    emuErr,       \* the err of Start
    emuRet,       \* what Start returned, once it has
    emuCmd,       \* the field cmd of the Emulator
    emuProcess,   \* the emulator subprocess
    emuReleases,  \* how many times the subprocess was released
    emuKills,     \* how many times it was sent a kill signal
    onceDone,     \* the done flag of the field once
    onceHolder,   \* the caller holding the mutex of once, 0 for nobody
    stopPc,       \* position of each caller of Stop
    stopCalls     \* how many calls of Stop each caller has completed

workflowVars == <<pc, rawRequest, request, uuid, normErr, calls, activities, i,
                  txLog, txResults, compLog, compErrs, retErr,
                  invocation, provisioned, renormalized>>
resolverVars == <<tuningIn, ambient, resolutions, again>>

emulatorVars == <<emuStartPc, emuErr, emuRet, emuCmd, emuProcess, emuReleases,
                  emuKills, onceDone, onceHolder, stopPc, stopCalls>>

vars == <<workflowVars, resolverVars, emulatorVars>>

\* the variables CreateWorkflow does not touch
besideWorkflow == <<resolverVars, emulatorVars, invocation, provisioned,
                    renormalized>>

(***************************************************************************)
(* Bounds of the model.                                                    *)
(***************************************************************************)
\* TimerInterval of a request ranges over MinTimer..MaxTimer.
MaxTimer == 2
\* At most this many of the optional request fields are supplied.
MaxSupplied == 2
\* The same tuning config is resolved at most this many times.
MaxResolutions == 2
\* This many callers call Stop on the Emulator, each at most MaxStopCalls times.
MaxStoppers == 2
MaxStopCalls == 2

(***************************************************************************)
(* Values.                                                                 *)
(***************************************************************************)
Nil == "<nil>"

GCS_FILE_PREFIX == "gs://"
MYSQL == "mysql"
RR_READER_FILTER_FWD == "forward_migration"
RR_READER_FILTER_NONE == "none"

\* strings.HasPrefix
HasPrefix(s, prefix) ==
    Len(s) >= Len(prefix) /\ SubSeq(s, 1, Len(prefix)) = prefix

\* Replace with a fault: only the first occurrence is replaced
Replace_FirstOnly(s, old, new) ==
    IF \E k \in 1..Len(s) : SubSeq(s, k, k) = old
    THEN LET k == CHOOSE k \in 1..Len(s) :
                      /\ SubSeq(s, k, k) = old
                      /\ \A j \in 1..(k - 1) : SubSeq(s, j, j) # old
         IN  SubSeq(s, 1, k - 1) \o new \o SubSeq(s, k + 1, Len(s))
    ELSE s

\* strings.Replace(s, old, new, -1) for a one-character old
RECURSIVE Replace(_, _, _)
Replace(s, old, new) ==
    IF s = "" THEN ""
    ELSE (IF SubSeq(s, 1, 1) = old THEN new ELSE SubSeq(s, 1, 1))
             \o Replace(SubSeq(s, 2, Len(s)), old, new)

\* utils.Contains
Contains(list, x) == \E k \in 1..Len(list) : list[k] = x

\* the result of one step of validateAndUpdateJobData: the request as it
\* stands and the error the function returns there (Nil: it goes on)
Go(r) == [request |-> r, err |-> Nil]
Fail(r, msg) == [request |-> r, err |-> msg]

(***************************************************************************)
(* validateAndUpdateJobData, create.go lines 32-111, statement by          *)
(* statement.  Each step takes the request as the statements before it     *)
(* left it and gives the request after it with the error returned there.   *)
(***************************************************************************)

\* StagingDecision with a fault: the data directory is not consulted
StagingDecision_IgnoresDataDirectory(r, id) ==
    LET r1 == [r EXCEPT !.IsSMTBucketRequired = TRUE,
                        !.SmtBucketName = "smt-rr-gcs-" \o id]
    IN  IF /\ HasPrefix(r1.SessionFilePath, GCS_FILE_PREFIX)
           /\ HasPrefix(r1.SourceConnectionConfig, GCS_FILE_PREFIX)
        THEN [r1 EXCEPT !.IsSMTBucketRequired = FALSE, !.SmtBucketName = ""]
        ELSE r1

\* lines 33-38: whether the tool's own bucket is needed, and its name
StagingDecision(r, id) ==
    LET r1 == [r EXCEPT !.IsSMTBucketRequired = TRUE,
                        !.SmtBucketName = "smt-rr-gcs-" \o id]
    IN  IF /\ HasPrefix(r1.SessionFilePath, GCS_FILE_PREFIX)
           /\ HasPrefix(r1.SourceConnectionConfig, GCS_FILE_PREFIX)
           /\ r1.GcsDataDirectory # ""
        THEN [r1 EXCEPT !.IsSMTBucketRequired = FALSE, !.SmtBucketName = ""]
        ELSE r1

\* lines 39-41
CheckInstanceId(r) ==
    IF r.InstanceId = ""
    THEN Fail(r, "found empty InstanceId which is a required parameter")
    ELSE Go(r)

\* lines 42-44
CheckDatabaseId(r) ==
    IF r.DatabaseId = ""
    THEN Fail(r, "found empty DatabaseId which is a required parameter")
    ELSE Go(r)

\* ResolveSessionFilePath with a fault: the rewritten path lacks the scheme
ResolveSessionFilePath_NoScheme(r) ==
    IF r.SessionFilePath = ""
    THEN Fail(r, "found empty SessionFilePath which is a required parameter")
    ELSE IF ~HasPrefix(r.SessionFilePath, GCS_FILE_PREFIX)
    THEN Go([r EXCEPT !.SessionFileGcsPath = r.SmtBucketName \o "/session.json"])
    ELSE Go([r EXCEPT !.SessionFileGcsPath = r.SessionFilePath])

\* lines 45-51
ResolveSessionFilePath(r) ==
    IF r.SessionFilePath = ""
    THEN Fail(r, "found empty SessionFilePath which is a required parameter")
    ELSE IF ~HasPrefix(r.SessionFilePath, GCS_FILE_PREFIX)
    THEN Go([r EXCEPT !.SessionFileGcsPath =
                 GCS_FILE_PREFIX \o r.SmtBucketName \o "/session.json"])
    ELSE Go([r EXCEPT !.SessionFileGcsPath = r.SessionFilePath])

\* lines 52-58
ResolveSourceConnectionConfig(r) ==
    IF r.SourceConnectionConfig = ""
    THEN Fail(r, "found empty SourceConnectionConfig which is a required parameter")
    ELSE IF ~HasPrefix(r.SourceConnectionConfig, GCS_FILE_PREFIX)
    THEN Go([r EXCEPT !.SourceConnectionConfigGcsPath =
                 GCS_FILE_PREFIX \o r.SmtBucketName \o "/source-connection-config.json"])
    ELSE Go([r EXCEPT !.SourceConnectionConfigGcsPath = r.SourceConnectionConfig])

\* CheckSpannerProjectId with a fault: the test is left out
CheckSpannerProjectId_Skipped(r) == Go(r)

\* lines 59-61
CheckSpannerProjectId(r) ==
    IF r.SpannerProjectId = ""
    THEN Fail(r, "found empty SpannerProjectId which is a required parameter")
    ELSE Go(r)

\* lines 39-61: the five required fields, in the order the code tests them
RequiredFields(r) ==
    LET a == CheckInstanceId(r) IN IF a.err # Nil THEN a ELSE
    LET b == CheckDatabaseId(a.request) IN IF b.err # Nil THEN b ELSE
    LET c == ResolveSessionFilePath(b.request) IN IF c.err # Nil THEN c ELSE
    LET d == ResolveSourceConnectionConfig(c.request) IN IF d.err # Nil THEN d ELSE
    CheckSpannerProjectId(d.request)

\* DefaultJobName with a fault: a name the caller gave is overwritten
DefaultJobName_Always(r, id) == [r EXCEPT !.JobName = "smt-job-" \o id]

\* lines 62-64
DefaultJobName(r, id) ==
    IF r.JobName = "" THEN [r EXCEPT !.JobName = "smt-job-" \o id] ELSE r

\* lines 65-70
CheckSourceType(r) ==
    LET r1 == IF r.SourceType = "" THEN [r EXCEPT !.SourceType = MYSQL] ELSE r
    IN  IF r1.SourceType # MYSQL
        THEN Fail(r1, r1.SourceType \o " is not a valid source type for reverse replication. Only supported source type is mysql")
        ELSE Go(r1)

\* lines 71-76
DefaultMetadata(r, id) ==
    LET r1 == IF r.MetadataInstance = ""
              THEN [r EXCEPT !.MetadataInstance = r.InstanceId] ELSE r
    IN  IF r1.MetadataDatabase = ""
        THEN [r1 EXCEPT !.MetadataDatabase = "smt-rr-metadata-" \o id]
        ELSE r1

\* lines 77-81
CheckGcsDataDirectory(r, id) ==
    IF r.GcsDataDirectory = ""
    THEN Go([r EXCEPT !.GcsDataDirectory =
                 "gs://smt-rr-gcs-" \o id \o "/reverse-replication/data"])
    ELSE IF ~HasPrefix(r.GcsDataDirectory, GCS_FILE_PREFIX)
    THEN Fail(r, "invalid gcs path for GcsDataDirectory: " \o r.GcsDataDirectory)
    ELSE Go(r)

\* DefaultChangeStreamName with a fault: an unset name stays unset
DefaultChangeStreamName_Skipped(r, id) == r

\* lines 82-84
DefaultChangeStreamName(r, id) ==
    IF r.ChangeStreamName = ""
    THEN [r EXCEPT !.ChangeStreamName = "smt-rr-cs-" \o id] ELSE r

\* CheckFiltrationMode with a fault: any value given is accepted
CheckFiltrationMode_AcceptsAny(r) ==
    IF r.FiltrationMode = ""
    THEN Go([r EXCEPT !.FiltrationMode = RR_READER_FILTER_FWD])
    ELSE Go(r)

\* lines 85-89
CheckFiltrationMode(r) ==
    IF r.FiltrationMode = ""
    THEN Go([r EXCEPT !.FiltrationMode = RR_READER_FILTER_FWD])
    ELSE IF ~Contains(<<RR_READER_FILTER_FWD, RR_READER_FILTER_NONE>>, r.FiltrationMode)
    THEN Fail(r, "found filtrationMode " \o r.FiltrationMode
                 \o ", only allowed values are [" \o RR_READER_FILTER_FWD
                 \o ", " \o RR_READER_FILTER_NONE \o "]")
    ELSE Go(r)

\* DefaultTimerAndWindow with a fault: only a negative interval is raised
DefaultTimerAndWindow_ZeroKept(r) ==
    LET r1 == IF r.TimerInterval < 0 THEN [r EXCEPT !.TimerInterval = 1] ELSE r
    IN  IF r1.WindowDuration = "" THEN [r1 EXCEPT !.WindowDuration = "10s"] ELSE r1

\* lines 90-95
DefaultTimerAndWindow(r) ==
    LET r1 == IF r.TimerInterval < 1 THEN [r EXCEPT !.TimerInterval = 1] ELSE r
    IN  IF r1.WindowDuration = "" THEN [r1 EXCEPT !.WindowDuration = "10s"] ELSE r1

\* CheckSharding with a fault: a class name without a jar path is accepted
CheckSharding_OneWay(r) ==
    IF r.ShardingCustomJarPath # "" /\ r.ShardingCustomClassName = ""
    THEN Fail(r, "found non-empty value for ShardingCustomJarPath, but empty value for ShardingCustomClassName")
    ELSE IF /\ r.ShardingCustomJarPath # ""
            /\ ~HasPrefix(r.ShardingCustomJarPath, GCS_FILE_PREFIX)
    THEN Fail(r, "please specify a valid GCS path for ShardingCustomJarPath, starting with gs://")
    ELSE Go(r)

\* lines 97-105
CheckSharding(r) ==
    IF r.ShardingCustomJarPath # "" /\ r.ShardingCustomClassName = ""
    THEN Fail(r, "found non-empty value for ShardingCustomJarPath, but empty value for ShardingCustomClassName")
    ELSE IF r.ShardingCustomJarPath = "" /\ r.ShardingCustomClassName # ""
    THEN Fail(r, "found non-empty value for ShardingCustomClassName, but empty value for ShardingCustomJarPath")
    ELSE IF /\ r.ShardingCustomJarPath # ""
            /\ ~HasPrefix(r.ShardingCustomJarPath, GCS_FILE_PREFIX)
    THEN Fail(r, "please specify a valid GCS path for ShardingCustomJarPath, starting with gs://")
    ELSE Go(r)

\* line 107
SanitizeChangeStreamName(r) ==
    [r EXCEPT !.ChangeStreamName = Replace(r.ChangeStreamName, "-", "_")]

\* lines 33-107: everything validateAndUpdateJobData does before the lookup
ValidateFields(r, id) ==
    LET a == RequiredFields(StagingDecision(r, id)) IN IF a.err # Nil THEN a ELSE
    LET b == CheckSourceType(DefaultJobName(a.request, id)) IN IF b.err # Nil THEN b ELSE
    LET c == CheckGcsDataDirectory(DefaultMetadata(b.request, id), id) IN IF c.err # Nil THEN c ELSE
    LET d == CheckFiltrationMode(DefaultChangeStreamName(c.request, id)) IN IF d.err # Nil THEN d ELSE
    LET e == CheckSharding(DefaultTimerAndWindow(d.request)) IN IF e.err # Nil THEN e ELSE
    Go(SanitizeChangeStreamName(e.request))

\* validateAndUpdateJobData with a fault: the lookup is made before the
\* fields are validated
validateAndUpdateJobData_LookupFirst(r, id, lookup) ==
    LET v == ValidateFields([r EXCEPT !.SpannerLocation = lookup.loc], id)
    IN  [request |-> v.request,
         err |-> IF lookup.err # Nil THEN lookup.err ELSE v.err,
         lookups |-> 1]

\* The whole function.  lookup is what spanneraccessor.GetSpannerLeaderLocation
\* answers when called: [loc, err].  lookups counts the calls made to it.
validateAndUpdateJobData(r, id, lookup) ==
    LET v == ValidateFields(r, id)
    IN  IF v.err # Nil
        THEN [request |-> v.request, err |-> v.err, lookups |-> 0]
        ELSE [request |-> [v.request EXCEPT !.SpannerLocation = lookup.loc],
              err |-> lookup.err, lookups |-> 1]

(***************************************************************************)
(* CreateWorkflow, create.go lines 114-245.                                *)
(***************************************************************************)

\* AbortsOnError with a fault: the error is ignored
AbortsOnError_Never(err) == FALSE

\* line 123, and line 133: a non-nil error ends CreateWorkflow there
AbortsOnError(err) == err # Nil

\* line 124
ValidateError(err) == "error in validateCreateRequest: " \o err

\* line 134
DaoError(err) == "error starting dao client: " \o err

\* line 109: the argument of the lookup
InstanceUri(r) == "projects/" \o r.SpannerProjectId \o "/instances/" \o r.InstanceId

\* lines 169 and 176
DbUri(project, instance, database) ==
    "projects/" \o project \o "/instances/" \o instance \o "/databases/" \o database

\* line 137
SmtJobId(id) == "smt-job-" \o id

\* lines 138-142: json.Marshal(request), the serialized request of the job
\* record.  JobData holds strings, integers and booleans only, for which
\* json.Marshal returns no error: the return of line 140 is never taken.
JobDataJson(r) == <<"json", r>>

\* lines 143-231: the catalog, each activity with the Input bound to it
Catalog(r, id) == <<
    [name  |-> "CreateSmtJobEntry",
     Input |-> [SmtJobId         |-> SmtJobId(id),
                JobName          |-> r.JobName,
                SpannerProjectId |-> r.SpannerProjectId,
                InstanceId       |-> r.InstanceId,
                DatabaseId       |-> r.DatabaseId,
                JobData          |-> JobDataJson(r)]],
    [name  |-> "PrepareGcsBucket",
     Input |-> [SmtJobId               |-> SmtJobId(id),
                SmtBucketName          |-> r.SmtBucketName,
                SpannerProjectId       |-> r.SpannerProjectId,
                SpannerLocation        |-> r.SpannerLocation,
                SessionFilePath        |-> r.SessionFilePath,
                SourceConnectionConfig |-> r.SourceConnectionConfig,
                IsSMTBucketRequired    |-> r.IsSMTBucketRequired]],
    [name  |-> "PrepareChangeStream",
     Input |-> [SmtJobId         |-> SmtJobId(id),
                ChangeStreamName |-> r.ChangeStreamName,
                DbURI            |-> DbUri(r.SpannerProjectId, r.InstanceId, r.DatabaseId)],
     Output |-> [Exists                     |-> FALSE,
                 ExistsWithIncorrectOptions |-> FALSE,
                 Created                    |-> FALSE]],
    [name  |-> "PrepareMetadataDb",
     Input |-> [SmtJobId |-> SmtJobId(id),
                DbURI    |-> DbUri(r.SpannerProjectId, r.MetadataInstance, r.MetadataDatabase)]],
    [name  |-> "PrepareDataflowReader",
     Input |-> [SmtJobId                |-> SmtJobId(id),
                ChangeStreamName        |-> r.ChangeStreamName,
                InstanceId              |-> r.InstanceId,
                DatabaseId              |-> r.DatabaseId,
                SpannerProjectId        |-> r.SpannerProjectId,
                SessionFilePath         |-> r.SessionFileGcsPath,
                SourceShardsFilePath    |-> r.SourceConnectionConfigGcsPath,
                MetadataInstance        |-> r.MetadataInstance,
                MetadataDatabase        |-> r.MetadataDatabase,
                GcsOutputDirectory      |-> r.GcsDataDirectory,
                StartTimestamp          |-> r.StartTimestamp,
                EndTimestamp            |-> r.EndTimestamp,
                WindowDuration          |-> r.WindowDuration,
                FiltrationMode          |-> r.FiltrationMode,
                MetadataTableSuffix     |-> r.MetadataTableSuffix,
                SkipDirectoryName       |-> r.SkipDirectoryName,
                ShardingCustomJarPath   |-> r.ShardingCustomJarPath,
                ShardingCustomClassName |-> r.ShardingCustomClassName,
                TuningCfg               |-> r.ReaderCfg,
                SpannerLocation         |-> r.SpannerLocation],
     Output |-> [JobId |-> ""]],
    [name  |-> "PrepareDataflowWriter",
     Input |-> [SmtJobId               |-> SmtJobId(id),
                SourceShardsFilePath   |-> r.SourceConnectionConfigGcsPath,
                SessionFilePath        |-> r.SessionFileGcsPath,
                SourceType             |-> r.SourceType,
                SourceDbTimezoneOffset |-> r.SourceDbTimezoneOffset,
                TimerInterval          |-> r.TimerInterval,
                StartTimestamp         |-> r.StartTimestamp,
                WindowDuration         |-> r.WindowDuration,
                GCSInputDirectoryPath  |-> r.GcsDataDirectory,
                SpannerProjectId       |-> r.SpannerProjectId,
                MetadataInstance       |-> r.MetadataInstance,
                MetadataDatabase       |-> r.MetadataDatabase,
                MetadataTableSuffix    |-> r.MetadataTableSuffix,
                TuningCfg              |-> r.WriterCfg,
                SpannerLocation        |-> r.SpannerLocation]],
    [name  |-> "UpdateSmtJobEntry",
     Input |-> [SmtJobId |-> SmtJobId(id),
                State    |-> "RUNNING"]] >>

\* LoopStops with a fault: the loop goes on after a failed Transaction
LoopStops_Never(err) == FALSE

\* line 233: the loop ends at the first Transaction that returns an error
LoopStops(err) == err # Nil

\* ActivityError with a fault: the activities are counted from one
ActivityError_OneBased(idx, err) ==
    "error executing activity #" \o ToString(idx + 1) \o ": " \o err

\* ActivityError with a fault: the cause is dropped
ActivityError_NoCause(idx, err) ==
    "error executing activity #" \o ToString(idx) \o ": failed"

\* line 240
ActivityError(idx, err) ==
    "error executing activity #" \o ToString(idx) \o ": " \o err

\* NextIndex with a fault: every other activity is skipped
NextIndex_SkipOne(idx) == idx + 2

\* NextIndex with a fault: the failed or finished activity is run again
NextIndex_Retry(idx) == idx

\* line 232: range over the catalog, one index after the other
NextIndex(idx) == idx + 1

\* lines 234-239: the compensating actions CreateWorkflow runs for a failed
\* Transaction at index idx (the loop over the earlier steps is commented
\* out in the source: none)
Compensations(acts, idx) == << >>

(***************************************************************************)
(* The requests a caller may pass, and what the outside world may answer.  *)
(***************************************************************************)

\* the fields a request must give
RequiredChoices ==
    [InstanceId             : {"", "inst"},
     DatabaseId             : {"", "db"},
     SessionFilePath        : {"", "session.json", "gs://b/session.json"},
     SourceConnectionConfig : {"", "shards.json", "gs://b/shards.json"},
     SpannerProjectId       : {"", "proj"}]

\* the fields a request may leave unset
OptionalFields ==
    [JobName                 : {"", "myjob"},
     SourceType              : {"", "mysql", "postgres"},
     MetadataInstance        : {"", "minst"},
     MetadataDatabase        : {"", "mdb"},
     GcsDataDirectory        : {"", "gs://b/data", "/data"},
     ChangeStreamName        : {"", "a-b-c", "plain"},
     FiltrationMode          : {"", "forward_migration", "none", "bogus"},
     WindowDuration          : {"", "5s"},
     ShardingCustomJarPath   : {"", "gs://b/p.jar", "p.jar"},
     ShardingCustomClassName : {"", "Cls"},
     TimerInterval           : (0 - 1)..MaxTimer]

Supplied(o) ==
    Cardinality({f \in DOMAIN o \ {"TimerInterval"} : o[f] # ""})
        + (IF o.TimerInterval # 0 THEN 1 ELSE 0)

OptionalChoices == {o \in OptionalFields : Supplied(o) <= MaxSupplied}

\* the fields validateAndUpdateJobData derives, and those it never reads,
\* at their Go zero values
UnsetFields ==
    [IsSMTBucketRequired           |-> FALSE,
     SmtBucketName                 |-> "",
     SessionFileGcsPath            |-> "",
     SourceConnectionConfigGcsPath |-> "",
     SpannerLocation               |-> "",
     StartTimestamp                |-> "",
     EndTimestamp                  |-> "",
     MetadataTableSuffix           |-> "",
     SkipDirectoryName             |-> "",
     SourceDbTimezoneOffset        |-> "",
     ReaderCfg                     |-> "",
     WriterCfg                     |-> ""]

\* utils.GenerateHashStr() gives some fresh identifier
Uuids == {"u1", "a-2"}

\* spanneraccessor.GetSpannerLeaderLocation: a location, or an error
LookupOutcomes ==
    {[loc |-> "us-central1", err |-> Nil],
     [loc |-> "", err |-> "could not fetch leader location"]}

\* validateAndUpdateJobData has been applied once only
NotRenormalized == [done |-> FALSE, before |-> UnsetFields, err |-> Nil]

\* dao.GetOrCreateClient: nil, or an error
DaoOutcomes == {Nil, "could not create spanner client"}

\* an activity's Transaction: nil, or an error
TransactionOutcomes == {Nil, "deadline exceeded", "permission denied"}

\* the activities whose Transaction is modelled from its source; of the
\* others only the result is modelled
ModelledActivities == {"PrepareChangeStream", "PrepareDataflowReader"}

\* what PrepareChangeStream.Transaction can meet: whether the change stream
\* exists, and what each accessor call returns
ChangeStreamWorlds ==
    [exists      : BOOLEAN,
     checkErr    : {Nil, "could not query change streams"},
     validateErr : {Nil, "incorrect options for change stream"},
     createErr   : {Nil, "could not create change stream"}]

(***************************************************************************)
(* PrepareChangeStream.Transaction, prepare_change_stream.go:42-64.  It    *)
(* gives the error returned, the Output as the Transaction leaves it and   *)
(* the accessor and resource calls made, in order.                         *)
(***************************************************************************)

\* PrepareChangeStream.Transaction with a fault: a change stream found with
\* incorrect options is created anew
PrepareChangeStreamTransaction_Repairs(p, w) ==
    LET input == p.Input
        arg   == <<input.ChangeStreamName, input.DbURI>>
        check == [fn |-> "CheckIfChangeStreamExists", arg |-> arg,
                  ret |-> w.exists /\ w.checkErr = Nil, err |-> w.checkErr]
        validate == [fn |-> "ValidateChangeStreamOptions", arg |-> arg,
                     ret |-> w.validateErr = Nil, err |-> w.validateErr]
        create == [fn |-> "CreateChangeStreamSMTResource",
                   arg |-> <<input.SmtJobId>> \o arg,
                   ret |-> w.createErr = Nil, err |-> w.createErr]
    IN  IF w.checkErr # Nil
        THEN [err |-> w.checkErr, Output |-> p.Output, calls |-> <<check>>]
        ELSE IF w.exists /\ w.validateErr = Nil
        THEN [err |-> Nil, Output |-> [p.Output EXCEPT !.Exists = TRUE],
              calls |-> <<check, validate>>]
        ELSE LET made == IF w.exists THEN <<check, validate, create>>
                         ELSE <<check, create>>
             IN  IF w.createErr # Nil
                 THEN [err |-> "could not create changestream resource: " \o w.createErr,
                       Output |-> p.Output, calls |-> made]
                 ELSE [err |-> Nil, Output |-> [p.Output EXCEPT !.Created = TRUE],
                       calls |-> made]

\* PrepareChangeStream.Transaction with a fault: a change stream created is
\* also flagged as found
PrepareChangeStreamTransaction_BothFlags(p, w) ==
    LET input == p.Input
        arg   == <<input.ChangeStreamName, input.DbURI>>
        check == [fn |-> "CheckIfChangeStreamExists", arg |-> arg,
                  ret |-> w.exists /\ w.checkErr = Nil, err |-> w.checkErr]
        validate == [fn |-> "ValidateChangeStreamOptions", arg |-> arg,
                     ret |-> w.validateErr = Nil, err |-> w.validateErr]
        create == [fn |-> "CreateChangeStreamSMTResource",
                   arg |-> <<input.SmtJobId>> \o arg,
                   ret |-> w.createErr = Nil, err |-> w.createErr]
    IN  IF w.checkErr # Nil
        THEN [err |-> w.checkErr, Output |-> p.Output, calls |-> <<check>>]
        ELSE IF w.exists
        THEN IF w.validateErr # Nil
             THEN [err |-> w.validateErr,
                   Output |-> [p.Output EXCEPT !.ExistsWithIncorrectOptions = TRUE],
                   calls |-> <<check, validate>>]
             ELSE [err |-> Nil, Output |-> [p.Output EXCEPT !.Exists = TRUE],
                   calls |-> <<check, validate>>]
        ELSE IF w.createErr # Nil
        THEN [err |-> "could not create changestream resource: " \o w.createErr,
              Output |-> p.Output, calls |-> <<check, create>>]
        ELSE [err |-> Nil,
              Output |-> [p.Output EXCEPT !.Created = TRUE, !.Exists = TRUE],
              calls |-> <<check, create>>]

PrepareChangeStreamTransaction(p, w) ==
    LET input == p.Input
        arg   == <<input.ChangeStreamName, input.DbURI>>
        \* line 44
        check == [fn |-> "CheckIfChangeStreamExists", arg |-> arg,
                  ret |-> w.exists /\ w.checkErr = Nil, err |-> w.checkErr]
        \* line 49
        validate == [fn |-> "ValidateChangeStreamOptions", arg |-> arg,
                     ret |-> w.validateErr = Nil, err |-> w.validateErr]
        \* line 58
        create == [fn |-> "CreateChangeStreamSMTResource",
                   arg |-> <<input.SmtJobId>> \o arg,
                   ret |-> w.createErr = Nil, err |-> w.createErr]
    IN  IF w.checkErr # Nil
        THEN \* lines 45-47
             [err |-> w.checkErr, Output |-> p.Output, calls |-> <<check>>]
        ELSE IF w.exists
        THEN IF w.validateErr # Nil
             THEN \* lines 50-53
                  [err |-> w.validateErr,
                   Output |-> [p.Output EXCEPT !.ExistsWithIncorrectOptions = TRUE],
                   calls |-> <<check, validate>>]
             ELSE \* lines 54-56
                  [err |-> Nil, Output |-> [p.Output EXCEPT !.Exists = TRUE],
                   calls |-> <<check, validate>>]
        ELSE IF w.createErr # Nil
        THEN \* lines 59-61
             [err |-> "could not create changestream resource: " \o w.createErr,
              Output |-> p.Output, calls |-> <<check, create>>]
        ELSE \* lines 62-63
             [err |-> Nil, Output |-> [p.Output EXCEPT !.Created = TRUE],
              calls |-> <<check, create>>]

(***************************************************************************)
(* The state machine.                                                      *)
(***************************************************************************)

\* the callers of Emulator.Stop
Stoppers == 1..MaxStoppers

\* no emulator is started
NoEmulator ==
    /\ emuStartPc = "none"
    /\ emuErr = Nil
    /\ emuRet = "none"
    /\ emuCmd = "nil"
    /\ emuProcess = "none"
    /\ emuReleases = 0
    /\ emuKills = 0
    /\ onceDone = FALSE
    /\ onceHolder = 0
    /\ stopPc = [t \in Stoppers |-> "idle"]
    /\ stopCalls = [t \in Stoppers |-> 0]

\* no tuning config is being resolved on its own
NoResolver ==
    /\ tuningIn = "none"
    /\ ambient = "none"
    /\ resolutions = << >>
    /\ again = << >>

Init ==
    /\ pc = "start"
    /\ \E c \in RequiredChoices, o \in OptionalChoices :
           rawRequest = c @@ o @@ UnsetFields
    /\ request = rawRequest
    /\ uuid = ""
    /\ normErr = Nil
    /\ calls = << >>
    /\ activities = << >>
    /\ i = 0
    /\ txLog = << >>
    /\ txResults = << >>
    /\ compLog = << >>
    /\ compErrs = << >>
    /\ retErr = Nil
    /\ invocation = 1
    /\ provisioned = {}
    /\ renormalized = NotRenormalized
    /\ NoResolver
    /\ NoEmulator

\* lines 121-125: generate the run identifier, normalize the request, and
\* return if that failed
Normalize ==
    /\ pc = "start"
    /\ \E id \in Uuids, lookup \in LookupOutcomes :
         LET res == validateAndUpdateJobData(request, id, lookup)
         IN  /\ uuid' = id
             /\ request' = res.request
             /\ normErr' = res.err
             /\ calls' = IF res.lookups = 0 THEN calls
                         ELSE Append(calls, [fn  |-> "GetSpannerLeaderLocation",
                                             arg |-> InstanceUri(res.request),
                                             err |-> lookup.err])
             /\ IF AbortsOnError(res.err)
                THEN pc' = "done" /\ retErr' = ValidateError(res.err)
                ELSE pc' = "normalized" /\ retErr' = retErr
    /\ UNCHANGED <<rawRequest, activities, i, txLog, txResults, compLog, compErrs>>
    /\ UNCHANGED besideWorkflow

\* line 129: check or create the tool's metadata database; the result is ignored
CheckOrCreateMetadataDb ==
    /\ pc = "normalized"
    /\ calls' = Append(calls, [fn  |-> "CheckOrCreateMetadataDb",
                               arg |-> InstanceUri(request),
                               err |-> Nil])
    /\ pc' = "metadb"
    /\ UNCHANGED <<rawRequest, request, uuid, normErr, activities, i,
                   txLog, txResults, compLog, compErrs, retErr>>
    /\ UNCHANGED besideWorkflow

\* lines 130-135: the dao client
GetOrCreateClient ==
    /\ pc = "metadb"
    /\ \E err \in DaoOutcomes :
         /\ calls' = Append(calls, [fn  |-> "GetOrCreateClient",
                                    arg |-> InstanceUri(request),
                                    err |-> err])
         /\ IF AbortsOnError(err)
            THEN pc' = "done" /\ retErr' = DaoError(err)
            ELSE pc' = "dao" /\ retErr' = retErr
    /\ UNCHANGED <<rawRequest, request, uuid, normErr, activities, i,
                   txLog, txResults, compLog, compErrs>>
    /\ UNCHANGED besideWorkflow

\* lines 137-231: the catalog is constructed
ConstructCatalog ==
    /\ pc = "dao"
    /\ activities' = Catalog(request, uuid)
    /\ i' = 0
    /\ pc' = "loop"
    /\ UNCHANGED <<rawRequest, request, uuid, normErr, calls,
                   txLog, txResults, compLog, compErrs, retErr>>
    /\ UNCHANGED besideWorkflow

\* line 233: activity.Transaction(ctx) is called
InvokeTransaction ==
    /\ pc = "loop"
    /\ i < Len(activities)
    /\ txLog' = Append(txLog, activities[i + 1].name)
    /\ pc' = "in_tx"
    /\ UNCHANGED <<rawRequest, request, uuid, normErr, calls, activities, i,
                   txResults, compLog, compErrs, retErr>>
    /\ UNCHANGED besideWorkflow

(***************************************************************************)
(* PrepareDataflowReader.Transaction, prepare_dataflow_reader.go:65-111,   *)
(* and the tuning resolver it calls, lines 117-146.                        *)
(***************************************************************************)

RR_READER_REGULAR_MODE == "regular"
REVERSE_REPLICATION_READER_TEMPLATE_PATH == "gs://templates/reader"

\* a Go map: nil, or a map with the entries kv
NilMap == [nil |-> TRUE, kv |-> << >>]
MakeMap(kv) == [nil |-> FALSE, kv |-> kv]

\* a DataflowTuningConfig as json.Unmarshal fills it from a file that gives
\* none of its fields; the label map is nil unless the file has the key
ZeroTuningCfg(labels) ==
    [ProjectId             |-> "",
     JobName               |-> "",
     Location              |-> "",
     MaxWorkers            |-> 0,
     NumWorkers            |-> 0,
     MachineType           |-> "",
     AdditionalUserLabels  |-> labels,
     GcsTemplatePath       |-> "",
     AdditionalExperiments |-> << >>,
     EnableStreamingEngine |-> FALSE]

\* a DataflowTuningConfig from a file that gives every field
GivenTuningCfg ==
    [ProjectId             |-> "proj2",
     JobName               |-> "myreader",
     Location              |-> "europe-west1",
     MaxWorkers            |-> 8,
     NumWorkers            |-> 2,
     MachineType           |-> "n2-standard-4",
     AdditionalUserLabels  |-> MakeMap("team" :> "dm"),
     GcsTemplatePath       |-> "gs://my/template",
     AdditionalExperiments |-> <<"enable_prime">>,
     EnableStreamingEngine |-> FALSE]

\* what PrepareDataflowReader.Transaction can meet: the tuning config read
\* (or an error), the hash generated for a default job name, the result of
\* building the launch request, and the result of the launch
ReaderWorlds ==
    [tuning    : {[cfg |-> ZeroTuningCfg(NilMap), err |-> "could not read tuning config"],
                  [cfg |-> ZeroTuningCfg(NilMap), err |-> Nil],
                  [cfg |-> ZeroTuningCfg(MakeMap(<< >>)), err |-> Nil],
                  [cfg |-> GivenTuningCfg, err |-> Nil]},
     hash      : Uuids,
     buildErr  : {Nil, "could not build launch request"},
     launch    : {[jobId |-> "df-reader-1", err |-> Nil],
                  [jobId |-> "", err |-> "error launching dataflow template"]}]

\* validateUpdateReaderTuningCfg with a fault: the default job name is built
\* from the job id instead of a newly generated hash
validateUpdateReaderTuningCfg_JobIdInName(cfg, spannerProjectId, spannerLocation, smtJobId, hash) ==
    LET c1 == IF cfg.ProjectId = "" THEN [cfg EXCEPT !.ProjectId = spannerProjectId] ELSE cfg
        c2 == IF c1.JobName = ""
              THEN [c1 EXCEPT !.JobName = "smt-reverse-replication-reader-" \o smtJobId]
              ELSE c1
        c3 == IF c2.Location = "" THEN [c2 EXCEPT !.Location = spannerLocation] ELSE c2
        c4 == IF c3.MaxWorkers = 0 THEN [c3 EXCEPT !.MaxWorkers = 50] ELSE c3
        c5 == IF c4.NumWorkers = 0 THEN [c4 EXCEPT !.NumWorkers = 5] ELSE c4
        c6 == IF c5.MachineType = "" THEN [c5 EXCEPT !.MachineType = "n1-standard-2"] ELSE c5
        c7 == [c6 EXCEPT !.AdditionalUserLabels =
                   MakeMap(("smt-reverse-replication-reader" :> smtJobId) @@ @.kv)]
        c8 == IF c7.GcsTemplatePath = ""
              THEN [c7 EXCEPT !.GcsTemplatePath = REVERSE_REPLICATION_READER_TEMPLATE_PATH]
              ELSE c7
        c9 == IF ~Contains(c8.AdditionalExperiments, "use_runner_v2")
              THEN [c8 EXCEPT !.AdditionalExperiments = Append(@, "use_runner_v2")]
              ELSE c8
    IN  IF c6.AdditionalUserLabels.nil
        THEN [panic |-> TRUE, cfg |-> c6]
        ELSE [panic |-> FALSE, cfg |-> [c9 EXCEPT !.EnableStreamingEngine = TRUE]]

\* lines 117-146; hash is what utils.GenerateHashStr() returns at line 122.
\* The result is the config as the resolver leaves it, or a panic: line 136
\* writes an entry into the label map, which panics when the map is nil.
validateUpdateReaderTuningCfg(cfg, spannerProjectId, spannerLocation, smtJobId, hash) ==
    LET \* lines 118-120
        c1 == IF cfg.ProjectId = "" THEN [cfg EXCEPT !.ProjectId = spannerProjectId] ELSE cfg
        \* lines 121-123
        c2 == IF c1.JobName = ""
              THEN [c1 EXCEPT !.JobName = "smt-reverse-replication-reader-" \o hash]
              ELSE c1
        \* lines 124-126
        c3 == IF c2.Location = "" THEN [c2 EXCEPT !.Location = spannerLocation] ELSE c2
        \* lines 127-129
        c4 == IF c3.MaxWorkers = 0 THEN [c3 EXCEPT !.MaxWorkers = 50] ELSE c3
        \* lines 130-132
        c5 == IF c4.NumWorkers = 0 THEN [c4 EXCEPT !.NumWorkers = 5] ELSE c4
        \* lines 133-135
        c6 == IF c5.MachineType = "" THEN [c5 EXCEPT !.MachineType = "n1-standard-2"] ELSE c5
        \* line 136
        c7 == [c6 EXCEPT !.AdditionalUserLabels =
                   MakeMap(("smt-reverse-replication-reader" :> smtJobId) @@ @.kv)]
        \* lines 137-139
        c8 == IF c7.GcsTemplatePath = ""
              THEN [c7 EXCEPT !.GcsTemplatePath = REVERSE_REPLICATION_READER_TEMPLATE_PATH]
              ELSE c7
        \* lines 140-144: a nil slice and a slice without the experiment both
        \* end up holding it
        c9 == IF ~Contains(c8.AdditionalExperiments, "use_runner_v2")
              THEN [c8 EXCEPT !.AdditionalExperiments = Append(@, "use_runner_v2")]
              ELSE c8
    IN  IF c6.AdditionalUserLabels.nil
        THEN [panic |-> TRUE, cfg |-> c6]
        ELSE \* line 145
             [panic |-> FALSE, cfg |-> [c9 EXCEPT !.EnableStreamingEngine = TRUE]]

\* lines 75-93: the launch parameters every launch carries
ReaderBaseParams(input) ==
          [changeStreamName     |-> input.ChangeStreamName,
           instanceId           |-> input.InstanceId,
           databaseId           |-> input.DatabaseId,
           spannerProjectId     |-> input.SpannerProjectId,
           metadataInstance     |-> input.MetadataInstance,
           metadataDatabase     |-> input.MetadataDatabase,
           gcsOutputDirectory   |-> input.GcsOutputDirectory,
           sessionFilePath      |-> input.SessionFilePath,
           sourceShardsFilePath |-> input.SourceShardsFilePath,
           endTimestamp         |-> input.EndTimestamp,
           windowDuration       |-> input.WindowDuration,
           filtrationMode       |-> input.FiltrationMode,
           metadataTableSuffix  |-> input.MetadataTableSuffix,
           skipDirectoryName    |-> input.SkipDirectoryName,
           startTimestamp       |-> input.StartTimestamp,
           runIdentifier        |-> input.SmtJobId,
           runMode              |-> RR_READER_REGULAR_MODE]

\* ReaderParams with a fault: the plugin entries are sent even when empty
ReaderParams_PluginAlways(input) ==
    [shardingCustomJarPath   |-> input.ShardingCustomJarPath,
     shardingCustomClassName |-> input.ShardingCustomClassName]
        @@ ReaderBaseParams(input)

\* lines 75-98: the launch parameters; the plugin entries are added only
\* when there is a plugin (lines 94-98)
ReaderParams(input) ==
    IF input.ShardingCustomJarPath # ""
    THEN [shardingCustomJarPath   |-> input.ShardingCustomJarPath,
          shardingCustomClassName |-> input.ShardingCustomClassName]
             @@ ReaderBaseParams(input)
    ELSE ReaderBaseParams(input)

\* lines 65-111.  The result holds the error returned, the Output as the
\* Transaction leaves it and the calls made; panic says that the Transaction
\* did not return at all.
PrepareDataflowReaderTransaction(p, w) ==
    LET input == p.Input
        \* line 67
        read == [fn |-> "UnmarshalDataflowTuningConfig", arg |-> <<input.TuningCfg>>,
                 ret |-> w.tuning.cfg, err |-> w.tuning.err]
        \* line 72
        resolved == validateUpdateReaderTuningCfg(w.tuning.cfg, input.SpannerProjectId,
                        input.SpannerLocation, input.SmtJobId, w.hash)
        \* line 99: the request carries the parameters and the resolved config
        dfLaunchReq == [params |-> ReaderParams(input), cfg |-> resolved.cfg]
        \* line 103
        launch == [fn |-> "CreateDataflowSMTResource",
                   arg |-> <<input.SmtJobId, dfLaunchReq>>,
                   ret |-> w.launch.jobId, err |-> w.launch.err]
        result(err, out, made, panic) ==
            [err |-> err, Output |-> out, calls |-> made, panic |-> panic]
    IN  IF w.tuning.err # Nil
        THEN \* lines 68-70
             result("error reading reader tuning config " \o input.TuningCfg \o ": "
                        \o w.tuning.err, p.Output, <<read>>, FALSE)
        ELSE IF resolved.panic
        THEN result(Nil, p.Output, <<read>>, TRUE)
        ELSE IF w.buildErr # Nil
        THEN \* lines 100-102
             result(w.buildErr, p.Output, <<read>>, FALSE)
        ELSE IF w.launch.err # Nil
        THEN \* lines 104-106
             result(w.launch.err, p.Output, <<read, launch>>, FALSE)
        ELSE \* lines 109-110
             result(Nil, [p.Output EXCEPT !.JobId = w.launch.jobId],
                    <<read, launch>>, FALSE)

\* lines 233-242: what the loop does with the error a Transaction returned;
\* on an error CreateWorkflow returns
LoopStep(err) ==
    /\ txResults' = Append(txResults, err)
    /\ IF LoopStops(err)
       THEN /\ compLog' = compLog \o Compensations(activities, i)
            /\ retErr' = ActivityError(i, err)
            /\ pc' = "done"
            /\ i' = i
       ELSE /\ i' = NextIndex(i)
            /\ pc' = "loop"
            /\ UNCHANGED <<compLog, retErr>>
    /\ UNCHANGED <<rawRequest, request, uuid, normErr, txLog, compErrs>>

\* the Transaction of an activity whose source is not modelled returns
TransactionReturns ==
    /\ pc = "in_tx"
    /\ activities[i + 1].name \notin ModelledActivities
    /\ \E err \in TransactionOutcomes : LoopStep(err)
    /\ UNCHANGED <<calls, activities>>
    /\ UNCHANGED besideWorkflow

\* PrepareChangeStream.Transaction runs and returns; a change stream that
\* an earlier invocation left in place exists
PrepareChangeStreamReturns ==
    /\ pc = "in_tx"
    /\ activities[i + 1].name = "PrepareChangeStream"
    /\ \E w \in ChangeStreamWorlds :
         LET t == PrepareChangeStreamTransaction(activities[i + 1], w)
         IN  /\ activities[i + 1].Input.ChangeStreamName \in provisioned => w.exists
             /\ calls' = calls \o t.calls
             /\ activities' = [activities EXCEPT ![i + 1].Output = t.Output]
             /\ LoopStep(t.err)
    /\ UNCHANGED besideWorkflow

\* PrepareDataflowReader.Transaction runs and returns, or panics: a panic
\* is recovered nowhere in CreateWorkflow, which then never returns
PrepareDataflowReaderReturns ==
    /\ pc = "in_tx"
    /\ activities[i + 1].name = "PrepareDataflowReader"
    /\ \E w \in ReaderWorlds :
         LET t == PrepareDataflowReaderTransaction(activities[i + 1], w)
         IN  /\ calls' = calls \o t.calls
             /\ activities' = [activities EXCEPT ![i + 1].Output = t.Output]
             /\ IF t.panic
                THEN /\ pc' = "panic"
                     /\ UNCHANGED <<rawRequest, request, uuid, normErr, i, txLog,
                                    txResults, compLog, compErrs, retErr>>
                ELSE LoopStep(t.err)
    /\ UNCHANGED besideWorkflow

\* lines 243-244: every Transaction succeeded
Finish ==
    /\ pc = "loop"
    /\ i >= Len(activities)
    /\ retErr' = Nil
    /\ pc' = "done"
    /\ UNCHANGED <<rawRequest, request, uuid, normErr, calls, activities, i,
                   txLog, txResults, compLog, compErrs>>
    /\ UNCHANGED besideWorkflow

Next ==
    \/ Normalize
    \/ CheckOrCreateMetadataDb
    \/ GetOrCreateClient
    \/ ConstructCatalog
    \/ InvokeTransaction
    \/ TransactionReturns
    \/ PrepareChangeStreamReturns
    \/ PrepareDataflowReaderReturns
    \/ Finish

Spec == Init /\ [][Next]_vars

(***************************************************************************)
(* CreateWorkflow invoked again with the same request after an invocation  *)
(* that failed at an activity.  No Compensation has run (lines 234-239),   *)
(* so what the failed invocation provisioned is still in place.            *)
(***************************************************************************)

\* the change streams the invocation leaves: the one its PrepareChangeStream
\* created, or found with correct options
ChangeStreamsLeft ==
    IF activities[3].Output.Created \/ activities[3].Output.Exists
    THEN {activities[3].Input.ChangeStreamName}
    ELSE {}

\* the caller invokes CreateWorkflow once more with the request it passed
\* the first time
Rerun ==
    /\ invocation = 1
    /\ pc = "done"
    /\ txResults # << >>
    /\ txResults[Len(txResults)] # Nil
    /\ invocation' = 2
    /\ provisioned' = ChangeStreamsLeft
    /\ pc' = "start"
    /\ request' = rawRequest
    /\ uuid' = ""
    /\ normErr' = Nil
    /\ calls' = << >>
    /\ activities' = << >>
    /\ i' = 0
    /\ txLog' = << >>
    /\ txResults' = << >>
    /\ compLog' = << >>
    /\ compErrs' = << >>
    /\ retErr' = Nil
    /\ UNCHANGED <<rawRequest, resolverVars, emulatorVars, renormalized>>

RerunNext ==
    \/ Next
    \/ Rerun

RerunSpec == Init /\ [][RerunNext]_vars

(***************************************************************************)
(* validateAndUpdateJobData applied once more to the request it has        *)
(* normalized, with the run identifier of the first application and with   *)
(* the lookup answering what it answered then.                             *)
(***************************************************************************)

\* what GetSpannerLeaderLocation answered when r was normalized
SameLookup(r) == [loc |-> r.SpannerLocation, err |-> Nil]

\* the second application; like the first it works on the request in place
NormalizeAgain ==
    /\ pc = "normalized"
    /\ normErr = Nil
    /\ ~renormalized.done
    /\ LET res == validateAndUpdateJobData(request, uuid, SameLookup(request))
       IN  /\ request' = res.request
           /\ renormalized' = [done |-> TRUE, before |-> request, err |-> res.err]
    /\ pc' = "renormalized"
    /\ UNCHANGED <<rawRequest, uuid, normErr, calls, activities, i, txLog,
                   txResults, compLog, compErrs, retErr, invocation, provisioned,
                   resolverVars, emulatorVars>>

NormalizeNext ==
    \/ Normalize
    \/ NormalizeAgain

NormalizeSpec == Init /\ [][NormalizeNext]_vars

(***************************************************************************)
(* The tuning resolver taken alone: validateUpdateReaderTuningCfg applied  *)
(* to a tuning config, more than once and to its own result.               *)
(***************************************************************************)

\* CreateWorkflow is not running
NoWorkflow ==
    /\ pc = "none"
    /\ rawRequest = UnsetFields
    /\ request = UnsetFields
    /\ uuid = ""
    /\ normErr = Nil
    /\ calls = << >>
    /\ activities = << >>
    /\ i = 0
    /\ txLog = << >>
    /\ txResults = << >>
    /\ compLog = << >>
    /\ compErrs = << >>
    /\ retErr = Nil
    /\ invocation = 0
    /\ provisioned = {}
    /\ renormalized = NotRenormalized

\* the scalar fields of a DataflowTuningConfig the resolver defaults
TuningScalars ==
    {"ProjectId", "JobName", "Location", "MaxWorkers", "NumWorkers",
     "MachineType", "GcsTemplatePath"}

\* the tuning configs a file can give: every choice of the scalar fields it
\* sets, with no label map, an empty one, or one with entries (also under
\* the key of the reader), and with or without experiments
TuningCfgs ==
    {[f \in DOMAIN GivenTuningCfg |->
          IF f = "AdditionalUserLabels" THEN labels
          ELSE IF f = "AdditionalExperiments" THEN experiments
          ELSE IF f \in given THEN GivenTuningCfg[f]
          ELSE ZeroTuningCfg(NilMap)[f]] :
        given \in SUBSET TuningScalars,
        labels \in {NilMap, MakeMap(<< >>), MakeMap("team" :> "dm"),
                    MakeMap(("team" :> "dm")
                            @@ ("smt-reverse-replication-reader" :> "old"))},
        experiments \in {<< >>, <<"enable_prime">>, <<"use_runner_v2">>}}

\* the project, location and job id the resolver is called with
Ambients ==
    {[project |-> "p1", location |-> "us-central1", runId |-> "abc"],
     [project |-> "proj", location |-> "asia-south1", runId |-> "smt-job-u1"]}

ResolverInit ==
    /\ NoWorkflow
    /\ NoEmulator
    /\ tuningIn \in TuningCfgs
    /\ ambient \in Ambients
    /\ resolutions = << >>
    /\ again = << >>

\* prepare_dataflow_reader.go:72 on a fresh copy of the config read
Resolve ==
    /\ Len(resolutions) < MaxResolutions
    /\ \E hash \in Uuids :
         resolutions' = Append(resolutions,
                            validateUpdateReaderTuningCfg(tuningIn, ambient.project,
                                ambient.location, ambient.runId, hash))
    /\ UNCHANGED <<workflowVars, emulatorVars, tuningIn, ambient, again>>

\* the resolver applied to the config its first call left
ResolveAgain ==
    /\ again = << >>
    /\ Len(resolutions) >= 1
    /\ ~resolutions[1].panic
    /\ \E hash \in Uuids :
         again' = <<validateUpdateReaderTuningCfg(resolutions[1].cfg, ambient.project,
                        ambient.location, ambient.runId, hash)>>
    /\ UNCHANGED <<workflowVars, emulatorVars, tuningIn, ambient, resolutions>>

ResolverNext ==
    \/ Resolve
    \/ ResolveAgain

ResolverSpec == ResolverInit /\ [][ResolverNext]_vars

(***************************************************************************)
(* The emulator wrapper: Start, and Stop called by several callers on the  *)
(* Emulator that Start returned or on an Emulator that was never started.  *)
(* sync.Once is modelled by its done flag and its mutex: Do returns at     *)
(* once when done is set, otherwise takes the mutex, looks at done again,  *)
(* runs the function when it is still unset, sets it and gives the mutex   *)
(* back.                                                                   *)
(***************************************************************************)

\* startEmulatorSubprocess: the binary is missing (no command is built),
\* cmd.Start fails (the command is built, no process runs), or the
\* subprocess runs
SubprocessOutcomes ==
    {[cmd |-> "nil", process |-> "none",
      err |-> "cannot find cloud spanner emulator binary"],
     [cmd |-> "unstarted", process |-> "none",
      err |-> "error starting emulator subprocess"],
     [cmd |-> "running", process |-> "running", err |-> Nil]}

\* waitForReady: nil, or an error
ReadyOutcomes == {Nil, "emulator failed to come up"}

\* OnceMutexFree with a fault: the mutex of once excludes nobody
OnceMutexFree_Always(holder) == TRUE

\* once.Do takes the mutex of once only when nobody holds it
OnceMutexFree(holder) == holder = 0

EmulatorInit ==
    /\ NoWorkflow
    /\ NoResolver
    /\ emuStartPc = "idle"
    /\ emuErr = Nil
    /\ emuRet = "none"
    /\ emuCmd = "nil"
    /\ emuProcess = "none"
    /\ emuReleases = 0
    /\ emuKills = 0
    /\ onceDone = FALSE
    /\ onceHolder = 0
    /\ stopPc = [t \in Stoppers |-> "idle"]
    /\ stopCalls = [t \in Stoppers |-> 0]

\* Start registers its deferred function and allocates the Emulator
StartBegin ==
    /\ emuStartPc = "idle"
    /\ emuStartPc' = "subprocess"
    /\ UNCHANGED <<workflowVars, resolverVars, emuErr, emuRet, emuCmd, emuProcess,
                   emuReleases, emuKills, onceDone, onceHolder, stopPc, stopCalls>>

\* err = emu.startEmulatorSubprocess()
StartEmulatorSubprocess ==
    /\ emuStartPc = "subprocess"
    /\ \E outcome \in SubprocessOutcomes :
         /\ emuCmd' = outcome.cmd
         /\ emuProcess' = outcome.process
         /\ IF outcome.err # Nil
            THEN /\ emuErr' = "Error bringing up emulator subprocess: " \o outcome.err
                 /\ emuStartPc' = "failed"
            ELSE /\ emuErr' = Nil
                 /\ emuStartPc' = "wait"
    /\ UNCHANGED <<workflowVars, resolverVars, emuRet, emuReleases, emuKills,
                   onceDone, onceHolder, stopPc, stopCalls>>

\* err = emu.waitForReady(ctx)
WaitForReady ==
    /\ emuStartPc = "wait"
    /\ \E err \in ReadyOutcomes :
         IF err # Nil
         THEN /\ emuErr' = "Error waiting for emulator to start: " \o err
              /\ emuStartPc' = "failed"
         ELSE /\ emuErr' = Nil
              /\ emuStartPc' = "ready"
    /\ UNCHANGED <<workflowVars, resolverVars, emuRet, emuCmd, emuProcess,
                   emuReleases, emuKills, onceDone, onceHolder, stopPc, stopCalls>>

\* "return nil, err" sets the result emu to nil; the deferred function then
\* finds err non-nil and calls emu.Stop() on that nil Emulator, where
\* evaluating emu.once dereferences a nil pointer: Start panics and does
\* not return
StartFailureReturn ==
    /\ emuStartPc = "failed"
    /\ emuStartPc' = "panic"
    /\ UNCHANGED <<workflowVars, resolverVars, emuErr, emuRet, emuCmd, emuProcess,
                   emuReleases, emuKills, onceDone, onceHolder, stopPc, stopCalls>>

\* "return emu, nil"; the deferred function finds err nil and does nothing
StartSuccessReturn ==
    /\ emuStartPc = "ready"
    /\ emuRet' = [emu |-> "emu", err |-> Nil]
    /\ emuStartPc' = "returned"
    /\ UNCHANGED <<workflowVars, resolverVars, emuErr, emuCmd, emuProcess,
                   emuReleases, emuKills, onceDone, onceHolder, stopPc, stopCalls>>

\* an Emulator that was never started: the zero value of the type
ZeroEmulator ==
    /\ emuStartPc = "idle"
    /\ emuStartPc' = "zero"
    /\ UNCHANGED <<workflowVars, resolverVars, emuErr, emuRet, emuCmd, emuProcess,
                   emuReleases, emuKills, onceDone, onceHolder, stopPc, stopCalls>>

\* a caller that holds the Emulator calls Stop
StopCall(t) ==
    /\ emuStartPc \in {"returned", "zero"}
    /\ stopPc[t] = "idle"
    /\ stopCalls[t] < MaxStopCalls
    /\ stopPc' = [stopPc EXCEPT ![t] = "once"]
    /\ UNCHANGED <<workflowVars, resolverVars, emuStartPc, emuErr, emuRet, emuCmd,
                   emuProcess, emuReleases, emuKills, onceDone, onceHolder, stopCalls>>

\* once.Do looks at done without the mutex
OnceFastPath(t) ==
    /\ stopPc[t] = "once"
    /\ IF onceDone
       THEN /\ stopPc' = [stopPc EXCEPT ![t] = "idle"]
            /\ stopCalls' = [stopCalls EXCEPT ![t] = @ + 1]
       ELSE /\ stopPc' = [stopPc EXCEPT ![t] = "lock"]
            /\ UNCHANGED stopCalls
    /\ UNCHANGED <<workflowVars, resolverVars, emuStartPc, emuErr, emuRet, emuCmd,
                   emuProcess, emuReleases, emuKills, onceDone, onceHolder>>

\* once.Do takes the mutex and looks at done again
OnceLock(t) ==
    /\ stopPc[t] = "lock"
    /\ OnceMutexFree(onceHolder)
    /\ onceHolder' = t
    /\ stopPc' = [stopPc EXCEPT ![t] = IF onceDone THEN "unlock" ELSE "check"]
    /\ UNCHANGED <<workflowVars, resolverVars, emuStartPc, emuErr, emuRet, emuCmd,
                   emuProcess, emuReleases, emuKills, onceDone, stopCalls>>

\* if emu.cmd != nil
CheckCmd(t) ==
    /\ stopPc[t] = "check"
    /\ stopPc' = [stopPc EXCEPT ![t] = IF emuCmd # "nil" THEN "release" ELSE "unlock"]
    /\ UNCHANGED <<workflowVars, resolverVars, emuStartPc, emuErr, emuRet, emuCmd,
                   emuProcess, emuReleases, emuKills, onceDone, onceHolder, stopCalls>>

\* emu.cmd.Process.Release()
ReleaseProcess(t) ==
    /\ stopPc[t] = "release"
    /\ emuReleases' = emuReleases + 1
    /\ stopPc' = [stopPc EXCEPT ![t] = "kill"]
    /\ UNCHANGED <<workflowVars, resolverVars, emuStartPc, emuErr, emuRet, emuCmd,
                   emuProcess, emuKills, onceDone, onceHolder, stopCalls>>

\* emu.cmd.Process.Kill()
KillProcess(t) ==
    /\ stopPc[t] = "kill"
    /\ emuKills' = emuKills + 1
    /\ emuProcess' = "killed"
    /\ stopPc' = [stopPc EXCEPT ![t] = "clear"]
    /\ UNCHANGED <<workflowVars, resolverVars, emuStartPc, emuErr, emuRet, emuCmd,
                   emuReleases, onceDone, onceHolder, stopCalls>>

\* emu.cmd = nil
ClearCmd(t) ==
    /\ stopPc[t] = "clear"
    /\ emuCmd' = "nil"
    /\ stopPc' = [stopPc EXCEPT ![t] = "unlock"]
    /\ UNCHANGED <<workflowVars, resolverVars, emuStartPc, emuErr, emuRet,
                   emuProcess, emuReleases, emuKills, onceDone, onceHolder, stopCalls>>

\* once.Do sets done and gives the mutex back, and Stop returns
OnceUnlock(t) ==
    /\ stopPc[t] = "unlock"
    /\ onceDone' = TRUE
    /\ onceHolder' = 0
    /\ stopPc' = [stopPc EXCEPT ![t] = "idle"]
    /\ stopCalls' = [stopCalls EXCEPT ![t] = @ + 1]
    /\ UNCHANGED <<workflowVars, resolverVars, emuStartPc, emuErr, emuRet, emuCmd,
                   emuProcess, emuReleases, emuKills>>

EmulatorNext ==
    \/ StartBegin
    \/ StartEmulatorSubprocess
    \/ WaitForReady
    \/ StartFailureReturn
    \/ StartSuccessReturn
    \/ ZeroEmulator
    \/ \E t \in Stoppers : StopCall(t)
    \/ \E t \in Stoppers : OnceFastPath(t)
    \/ \E t \in Stoppers : OnceLock(t)
    \/ \E t \in Stoppers : CheckCmd(t)
    \/ \E t \in Stoppers : ReleaseProcess(t)
    \/ \E t \in Stoppers : KillProcess(t)
    \/ \E t \in Stoppers : ClearCmd(t)
    \/ \E t \in Stoppers : OnceUnlock(t)

EmulatorSpec == EmulatorInit /\ [][EmulatorNext]_vars

(***************************************************************************)
(* Vocabulary of the properties.                                           *)
(***************************************************************************)

\* the catalog order of the specification, by the names of the Go types:
\* RegisterJob, PrepareStagingStore, PrepareChangeFeed, PrepareMetadataStore,
\* LaunchReaderPipeline, LaunchWriterPipeline, FinalizeJobStatus
CatalogOrder ==
    <<"CreateSmtJobEntry", "PrepareGcsBucket", "PrepareChangeStream",
      "PrepareMetadataDb", "PrepareDataflowReader", "PrepareDataflowWriter",
      "UpdateSmtJobEntry">>

Reverse(seq) == [k \in 1..Len(seq) |-> seq[Len(seq) + 1 - k]]

HasSubstring(s, t) ==
    \E k \in 1..(Len(s) - Len(t) + 1) : SubSeq(s, k, k + Len(t) - 1) = t

\* the error message names activity number n
IdentifiesIndex(msg, n) == HasSubstring(msg, "#" \o ToString(n) \o ":")

\* the positions (one-based, as the scenario counts them) whose Transaction
\* returned an error
FailedPositions == {k \in 1..Len(txResults) : txResults[k] # Nil}

RequiredFieldNames ==
    {"InstanceId", "DatabaseId", "SessionFilePath", "SourceConnectionConfig",
     "SpannerProjectId"}

\* a required field of the request is missing
MissingRequired(r) == \E f \in RequiredFieldNames : r[f] = ""

\* a supplied field of the request has a value the normalizer rejects
MalformedField(r) ==
    \/ r.SourceType \notin {"", "mysql"}
    \/ r.GcsDataDirectory # "" /\ ~HasPrefix(r.GcsDataDirectory, "gs://")
    \/ r.FiltrationMode \notin {"", RR_READER_FILTER_FWD, RR_READER_FILTER_NONE}
    \/ (r.ShardingCustomJarPath = "") # (r.ShardingCustomClassName = "")
    \/ r.ShardingCustomJarPath # "" /\ ~HasPrefix(r.ShardingCustomJarPath, "gs://")

FailsValidation(r) == MissingRequired(r) \/ MalformedField(r)

\* the indices of calls at which the resource location was looked up
Lookups == {k \in 1..Len(calls) : calls[k].fn = "GetSpannerLeaderLocation"}

Normalized == pc # "start" /\ normErr = Nil

\* the fields the normalizer fills in when the request leaves them unset
DefaultedFieldNames ==
    {"JobName", "ChangeStreamName", "MetadataInstance", "MetadataDatabase",
     "GcsDataDirectory"}

\* b is a with every hyphen turned into an underscore and nothing else changed
HyphensToUnderscores(a, b) ==
    /\ Len(a) = Len(b)
    /\ \A k \in 1..Len(a) :
           SubSeq(b, k, k) = IF SubSeq(a, k, k) = "-" THEN "_" ELSE SubSeq(a, k, k)

\* the name holds the run identifier, as it is or as a change-stream name
\* may hold it (with underscores for its hyphens)
EmbedsRunId(name, id) ==
    \/ HasSubstring(name, id)
    \/ HasSubstring(name, Replace(id, "-", "_"))

IsGcsPath(path) == path # "" /\ HasPrefix(path, "gs://")

\* the Input fields of the catalog that are not strings
NonStringInputs == {"JobData", "IsSMTBucketRequired", "TimerInterval"}

\* the calls PrepareChangeStream.Transaction made, in order
ChangeStreamCalls ==
    SelectSeq(calls, LAMBDA c : c.fn \in {"CheckIfChangeStreamExists",
                                          "ValidateChangeStreamOptions",
                                          "CreateChangeStreamSMTResource"})

\* the positions in calls of the reader pipeline launches, and for the
\* launch at position k the tuning config read just before it
ReaderLaunches == {k \in 1..Len(calls) : calls[k].fn = "CreateDataflowSMTResource"}
TuningRead(k) == calls[k - 1].ret

\* whether the tuning config leaves the scalar field f unset
UnsetScalar(cfg, f) ==
    IF f \in {"MaxWorkers", "NumWorkers"} THEN cfg[f] = 0 ELSE cfg[f] = ""

\* whether v is the default of the scalar field f
IsTuningDefault(f, v) ==
    CASE f = "ProjectId"       -> v = ambient.project
      [] f = "Location"        -> v = ambient.location
      [] f = "MaxWorkers"      -> v = 50
      [] f = "NumWorkers"      -> v = 5
      [] f = "MachineType"     -> v = "n1-standard-2"
      [] f = "GcsTemplatePath" -> v = REVERSE_REPLICATION_READER_TEMPLATE_PATH
      [] f = "JobName"         ->
             \E hash \in Uuids : v = "smt-reverse-replication-reader-" \o hash

\* how many times x occurs in the list
Occurrences(list, x) == Cardinality({k \in 1..Len(list) : list[k] = x})

(***************************************************************************)
(* Properties.                                                             *)
(***************************************************************************)

\* C1: stop on first failure.  If the Transaction at position k returned an
\* error, then exactly the Transactions of positions 1..k have been invoked,
\* once each and in order, none of a later position is, nothing returned
\* after it, and CreateWorkflow has returned an error.
C1_StopOnFirstFailure ==
    \A k \in FailedPositions :
        /\ txLog = SubSeq(CatalogOrder, 1, k)
        /\ Len(txResults) = k
        /\ pc = "done"
        /\ retErr # Nil

C1_Witness ==
    /\ pc = "done"
    /\ FailedPositions = {4}
    /\ Len(txLog) = 4

\* C2 as claimed: when the activity at position k of the scenario's numbering
\* #1..#7 fails, the returned error identifies index k and carries the cause.
C2_ErrorIdentifiesPosition ==
    \A k \in FailedPositions :
        /\ IdentifiesIndex(retErr, k)
        /\ HasSubstring(retErr, txResults[k])

\* C2 amended: the returned error identifies the zero-based loop index of
\* the failing activity, k - 1 for the activity at position k, and carries
\* the cause its Transaction returned.
C2_ErrorIdentifiesZeroBasedIndex ==
    \A k \in FailedPositions :
        /\ IdentifiesIndex(retErr, k - 1)
        /\ ~IdentifiesIndex(retErr, k)
        /\ HasSubstring(retErr, txResults[k])

C2_Witness ==
    /\ pc = "done"
    /\ 4 \in FailedPositions
    /\ IdentifiesIndex(retErr, 3)

\* C3 as claimed: when the Transaction at position k fails, CreateWorkflow
\* has, by the time it returns, invoked Compensation of the activities at
\* positions k-1, ..., 1, in this order and once each, and of no other.
C3_ReverseOrderRollback ==
    \A k \in FailedPositions :
        pc = "done" => compLog = Reverse(SubSeq(CatalogOrder, 1, k - 1))

C5_SequentialNoRetry ==
    /\ Len(txLog) <= Len(CatalogOrder)
    /\ txLog = SubSeq(CatalogOrder, 1, Len(txLog))
    /\ Len(txResults) <= Len(txLog)
    /\ Len(txLog) - Len(txResults) <= 1
    /\ \A k \in 1..(Len(txLog) - 1) : txResults[k] = Nil

C5_Witness ==
    /\ pc = "done"
    /\ retErr = Nil
    /\ txLog = CatalogOrder
    /\ Len(txResults) = 7

\* C6: a request with a missing or malformed field is rejected with no
\* external side effect: once normalization has run, CreateWorkflow has
\* returned an error, no external call has been made, no catalog has been
\* constructed and no Transaction has been invoked.
C6_InvalidRequestNoSideEffect ==
    (pc # "start" /\ FailsValidation(rawRequest)) =>
        /\ normErr # Nil
        /\ pc = "done"
        /\ retErr # Nil
        /\ calls = << >>
        /\ activities = << >>
        /\ txLog = << >>

C6_Witness ==
    /\ pc = "done"
    /\ MalformedField(rawRequest)
    /\ ~MissingRequired(rawRequest)
    /\ HasPrefix(retErr, "error in validateCreateRequest")

\* C7: the resource location is looked up at most once, as the first
\* external call, and only for a request that passes every field
\* validation; if the lookup fails, normalization fails, CreateWorkflow
\* returns an error, and there has been no other external call, no catalog
\* and no Transaction.
C7_LookupOnceAfterValidation ==
    /\ Cardinality(Lookups) <= 1
    /\ Lookups # {} => Lookups = {1} /\ ~FailsValidation(rawRequest)
    /\ (pc # "start" /\ ~FailsValidation(rawRequest)) => Lookups = {1}
    /\ \A k \in Lookups :
           calls[k].err # Nil =>
               /\ normErr = calls[k].err
               /\ pc = "done"
               /\ retErr # Nil
               /\ Len(calls) = 1
               /\ activities = << >>
               /\ txLog = << >>

C7_Witness ==
    /\ pc = "done"
    /\ Lookups = {1}
    /\ calls[1].err # Nil
    /\ normErr = calls[1].err

\* C8 as claimed: when validateAndUpdateJobData returns an error, every
\* field of the request equals its value before the call.
C8_NormalizationAtomic ==
    (pc # "start" /\ normErr # Nil) => request = rawRequest

\* C9: after a successful normalization, staging is marked unnecessary with
\* an empty bucket name exactly when the session path and the
\* source-connection path given both start with gs:// and a data directory
\* was given; otherwise it is required and the bucket is smt-rr-gcs-<uuid>.
C9_StagingNecessity ==
    Normalized =>
        LET hosted == /\ HasPrefix(rawRequest.SessionFilePath, "gs://")
                      /\ HasPrefix(rawRequest.SourceConnectionConfig, "gs://")
                      /\ rawRequest.GcsDataDirectory # ""
        IN  /\ hosted <=> (~request.IsSMTBucketRequired /\ request.SmtBucketName = "")
            /\ ~hosted => /\ request.IsSMTBucketRequired
                          /\ request.SmtBucketName = "smt-rr-gcs-" \o uuid

C9_Witness ==
    /\ Normalized
    /\ ~request.IsSMTBucketRequired
    /\ request.SmtBucketName = ""
    /\ rawRequest.GcsDataDirectory # ""

\* C10: a request with an empty required field is rejected, whatever its
\* other fields hold, with the error that names one of its empty required
\* fields.
C10_MissingRequiredRejected ==
    (pc # "start" /\ MissingRequired(rawRequest)) =>
        /\ pc = "done"
        /\ retErr # Nil
        /\ \E f \in RequiredFieldNames :
               /\ rawRequest[f] = ""
               /\ normErr = "found empty " \o f \o " which is a required parameter"

C10_Witness ==
    /\ pc = "done"
    /\ rawRequest.SpannerProjectId = ""
    /\ \A f \in RequiredFieldNames \ {"SpannerProjectId"} : rawRequest[f] # ""
    /\ MalformedField(rawRequest)
    /\ HasSubstring(normErr, "SpannerProjectId")

\* C11 as claimed: after a successful normalization each of job name,
\* change-feed name, metadata instance, metadata database and staging data
\* directory that the request left unset holds a default that embeds the
\* run identifier, and each one the request gave is not replaced by it.
C11_DefaultsEmbedRunId ==
    Normalized =>
        \A f \in DefaultedFieldNames :
            /\ rawRequest[f] = "" => EmbedsRunId(request[f], uuid)
            /\ rawRequest[f] # "" => HyphensToUnderscores(rawRequest[f], request[f])

\* C11 amended: when unset, the job name becomes smt-job-<run-id>, the
\* metadata database smt-rr-metadata-<run-id>, the staging data directory
\* gs://smt-rr-gcs-<run-id>/reverse-replication/data and the change-feed
\* name smt-rr-cs-<run-id> with its hyphens turned into underscores, each a
\* function of the run identifier alone; the metadata instance becomes the
\* target instance of the request.  A value the caller gave is never
\* replaced by the default (of a change-feed name given, only the hyphens
\* are turned into underscores).
C11_DefaultsWhenUnset ==
    Normalized =>
        LET raw == rawRequest
            Or(given, default) == IF given = "" THEN default ELSE given
        IN  /\ request.JobName = Or(raw.JobName, "smt-job-" \o uuid)
            /\ request.MetadataDatabase =
                   Or(raw.MetadataDatabase, "smt-rr-metadata-" \o uuid)
            /\ request.GcsDataDirectory =
                   Or(raw.GcsDataDirectory,
                      "gs://smt-rr-gcs-" \o uuid \o "/reverse-replication/data")
            /\ HyphensToUnderscores(Or(raw.ChangeStreamName, "smt-rr-cs-" \o uuid),
                                    request.ChangeStreamName)
            /\ request.MetadataInstance = Or(raw.MetadataInstance, raw.InstanceId)

C11_Witness ==
    /\ Normalized
    /\ rawRequest.MetadataInstance = ""
    /\ request.MetadataInstance = "inst"
    /\ rawRequest.JobName = "myjob"
    /\ request.JobName = "myjob"

\* C12: once the catalog is constructed, the resolved session path, the
\* resolved source-connection path and the staging data directory bound into
\* the pipeline Inputs are non-empty and start with gs://, and so does the
\* plugin reference when there is one; a request whose staging data
\* directory is given without gs:// is rejected.
C12_GcsPathsWellFormed ==
    /\ activities # << >> =>
           LET reader == activities[5].Input
               writer == activities[6].Input
           IN  /\ IsGcsPath(reader.SessionFilePath)
               /\ IsGcsPath(reader.SourceShardsFilePath)
               /\ IsGcsPath(reader.GcsOutputDirectory)
               /\ reader.ShardingCustomJarPath # "" =>
                      IsGcsPath(reader.ShardingCustomJarPath)
               /\ IsGcsPath(writer.SessionFilePath)
               /\ IsGcsPath(writer.SourceShardsFilePath)
               /\ IsGcsPath(writer.GCSInputDirectoryPath)
    /\ (/\ pc # "start"
        /\ rawRequest.GcsDataDirectory # ""
        /\ ~HasPrefix(rawRequest.GcsDataDirectory, "gs://")) =>
           normErr # Nil /\ activities = << >>

C12_Witness ==
    /\ activities # << >>
    /\ txLog = << >>
    /\ rawRequest.SessionFilePath = "session.json"
    /\ activities[5].Input.SessionFilePath # rawRequest.SessionFilePath
    /\ activities[5].Input.ShardingCustomJarPath # ""

\* C13 as claimed: once the catalog is constructed, every field the catalog
\* binds into an activity Input is non-empty.
C13_EveryInputNonEmpty ==
    \A k \in 1..Len(activities) :
        \A f \in DOMAIN activities[k].Input \ NonStringInputs :
            activities[k].Input[f] # ""

\* C13 amended: once the catalog is constructed, every Input field bound
\* from a field the normalizer requires or defaults is non-empty (job id,
\* job name, project, instance, database, session and source-connection
\* paths as given and as resolved, metadata instance and database, staging
\* data directory, change-feed name, source type, filtration mode, window
\* duration, the database URIs, the state) and the timer interval is at
\* least 1.  The fields the normalizer leaves optional may be empty: the
\* bucket name when staging is not required, the plugin reference and class
\* name, the timestamps, the table suffix, the skip directory, the timezone
\* offset and the tuning configs; the location is whatever the lookup gave.
C13_RequiredInputsNonEmpty ==
    \A k \in 1..Len(activities) :
        LET input == activities[k].Input
            optional == {"SmtBucketName", "ShardingCustomJarPath",
                         "ShardingCustomClassName", "StartTimestamp",
                         "EndTimestamp", "MetadataTableSuffix",
                         "SkipDirectoryName", "SourceDbTimezoneOffset",
                         "TuningCfg", "SpannerLocation"}
        IN  /\ \A f \in DOMAIN input \ (NonStringInputs \cup optional) :
                   input[f] # ""
            /\ "TimerInterval" \in DOMAIN input => input.TimerInterval >= 1
            /\ ("SmtBucketName" \in DOMAIN input /\ input.IsSMTBucketRequired) =>
                   input.SmtBucketName # ""

C13_Witness ==
    /\ activities # << >>
    /\ txLog = << >>
    /\ activities[2].Input.SmtBucketName = ""
    /\ activities[5].Input.ShardingCustomJarPath = ""
    /\ activities[6].Input.TimerInterval = 1

\* C14: after a successful normalization the change-feed name, given or
\* defaulted, is the name before sanitization with every hyphen turned into
\* an underscore: it holds no hyphen, a name without hyphens is unchanged
\* ("a-b-c" becomes "a_b_c"), and sanitizing it again changes nothing.
C14_ChangeStreamNameSanitized ==
    Normalized =>
        LET given == IF rawRequest.ChangeStreamName = ""
                     THEN "smt-rr-cs-" \o uuid ELSE rawRequest.ChangeStreamName
            name  == request.ChangeStreamName
        IN  /\ ~HasSubstring(name, "-")
            /\ HyphensToUnderscores(given, name)
            /\ ~HasSubstring(given, "-") => name = given
            /\ rawRequest.ChangeStreamName = "a-b-c" => name = "a_b_c"
            /\ SanitizeChangeStreamName(request) = request

C14_Witness ==
    /\ Normalized
    /\ rawRequest.ChangeStreamName = "a-b-c"
    /\ request.ChangeStreamName = "a_b_c"

\* C15: an unset filtration mode becomes the forward-filter value, one of
\* the two allowed values is kept, and any other value makes normalization
\* fail (with the filtration error when nothing tested before it fails); so
\* after a successful normalization it is one of the two allowed values.
C15_FiltrationMode ==
    LET allowed == {RR_READER_FILTER_FWD, RR_READER_FILTER_NONE}
        given   == rawRequest.FiltrationMode
    IN  /\ Normalized =>
               /\ request.FiltrationMode \in allowed
               /\ given = "" => request.FiltrationMode = RR_READER_FILTER_FWD
               /\ given # "" => request.FiltrationMode = given
        /\ (pc # "start" /\ given \notin allowed \cup {""}) =>
               /\ normErr # Nil
               /\ (/\ ~MissingRequired(rawRequest)
                   /\ rawRequest.SourceType \in {"", "mysql"}
                   /\ rawRequest.GcsDataDirectory \in {"", "gs://b/data"}) =>
                      HasPrefix(normErr, "found filtrationMode " \o given)

C15_Witness ==
    /\ pc = "done"
    /\ rawRequest.FiltrationMode = "bogus"
    /\ HasPrefix(normErr, "found filtrationMode bogus")

\* C16: normalization fails when exactly one of the plugin reference and its
\* class name is given, and when a plugin reference given does not start
\* with gs://; after a successful normalization both are empty, or both are
\* given and the reference starts with gs://.
C16_PluginMutualPresence ==
    LET jar == rawRequest.ShardingCustomJarPath
        cls == rawRequest.ShardingCustomClassName
    IN  /\ (pc # "start" /\ (jar = "") # (cls = "")) => normErr # Nil
        /\ (pc # "start" /\ jar # "" /\ ~HasPrefix(jar, "gs://")) => normErr # Nil
        /\ Normalized =>
               /\ request.ShardingCustomJarPath = jar
               /\ request.ShardingCustomClassName = cls
               /\ \/ jar = "" /\ cls = ""
                  \/ jar # "" /\ cls # "" /\ HasPrefix(jar, "gs://")

C16_Witness ==
    /\ pc = "done"
    /\ rawRequest.ShardingCustomJarPath = ""
    /\ rawRequest.ShardingCustomClassName = "Cls"
    /\ HasPrefix(normErr, "found non-empty value for ShardingCustomClassName")

\* C17: a timer interval below 1 is never a reason to reject the request and
\* becomes 1, an interval of 1 or more is kept; after a successful
\* normalization the interval is at least 1.
C17_TimerIntervalClamped ==
    LET given == rawRequest.TimerInterval
    IN  /\ Normalized =>
               /\ request.TimerInterval >= 1
               /\ request.TimerInterval = IF given < 1 THEN 1 ELSE given
        /\ (pc # "start" /\ given < 1 /\ ~FailsValidation(rawRequest)) =>
               \/ normErr = Nil
               \/ Lookups = {1} /\ normErr = calls[1].err

C17_Witness ==
    /\ Normalized
    /\ rawRequest.TimerInterval = 0 - 1
    /\ request.TimerInterval = 1

\* C18: PrepareChangeStream's Transaction first checks whether the change
\* stream exists.  If the check fails it fails with no further call.  If the
\* stream exists it validates the options and makes no creation call: it
\* succeeds when they are correct and fails when they are not.  If the
\* stream does not exist it calls creation exactly once and succeeds exactly
\* when creation succeeds.
C18_ChangeStreamPolicy ==
    LET c == ChangeStreamCalls
    IN  /\ Len(txLog) < 3 => c = << >>
        /\ Len(txResults) >= 3 =>
               /\ Len(c) >= 1 /\ c[1].fn = "CheckIfChangeStreamExists"
               /\ c[1].err # Nil => Len(c) = 1 /\ txResults[3] # Nil
               /\ (c[1].err = Nil /\ c[1].ret) =>
                      /\ Len(c) = 2
                      /\ c[2].fn = "ValidateChangeStreamOptions"
                      /\ txResults[3] = Nil <=> c[2].err = Nil
               /\ (c[1].err = Nil /\ ~c[1].ret) =>
                      /\ Len(c) = 2
                      /\ c[2].fn = "CreateChangeStreamSMTResource"
                      /\ txResults[3] = Nil <=> c[2].err = Nil

C18_Witness ==
    /\ pc = "done"
    /\ Len(txResults) = 3
    /\ Len(ChangeStreamCalls) = 2
    /\ ChangeStreamCalls[2].fn = "ValidateChangeStreamOptions"
    /\ ChangeStreamCalls[2].err # Nil
    /\ txResults[3] # Nil

\* C19 as claimed: within one invocation the job id, the default job name,
\* the staging-location name, the default staging data directory, the
\* default metadata database, the default change-feed name and the default
\* job name the reader tuning resolver chooses all embed the run identifier
\* of the invocation.
C19_AllNamesEmbedRunId ==
    /\ Normalized =>
           /\ rawRequest.JobName = "" => EmbedsRunId(request.JobName, uuid)
           /\ request.IsSMTBucketRequired => EmbedsRunId(request.SmtBucketName, uuid)
           /\ rawRequest.GcsDataDirectory = "" =>
                  EmbedsRunId(request.GcsDataDirectory, uuid)
           /\ rawRequest.MetadataDatabase = "" =>
                  EmbedsRunId(request.MetadataDatabase, uuid)
           /\ rawRequest.ChangeStreamName = "" =>
                  EmbedsRunId(request.ChangeStreamName, uuid)
    /\ \A k \in 1..Len(activities) : EmbedsRunId(activities[k].Input.SmtJobId, uuid)
    /\ \A k \in ReaderLaunches :
           TuningRead(k).JobName = "" => EmbedsRunId(calls[k].arg[2].cfg.JobName, uuid)

\* C19 amended: within one invocation the job id, the default job name, the
\* staging-location name, the default staging data directory, the default
\* metadata database and the default change-feed name (with underscores for
\* hyphens) are all built from the run identifier generated at the start of
\* the invocation.  The default job name the reader tuning resolver chooses
\* is built from a hash generated anew, which need not be the run
\* identifier; the launch carries the job id as the runIdentifier parameter
\* and as the label smt-reverse-replication-reader.
C19_NamesFromRunIdOrFreshHash ==
    /\ Normalized =>
           /\ rawRequest.JobName = "" => request.JobName = "smt-job-" \o uuid
           /\ request.IsSMTBucketRequired =>
                  request.SmtBucketName = "smt-rr-gcs-" \o uuid
           /\ rawRequest.GcsDataDirectory = "" =>
                  request.GcsDataDirectory =
                      "gs://smt-rr-gcs-" \o uuid \o "/reverse-replication/data"
           /\ rawRequest.MetadataDatabase = "" =>
                  request.MetadataDatabase = "smt-rr-metadata-" \o uuid
           /\ rawRequest.ChangeStreamName = "" =>
                  HyphensToUnderscores("smt-rr-cs-" \o uuid, request.ChangeStreamName)
    /\ \A k \in 1..Len(activities) : activities[k].Input.SmtJobId = "smt-job-" \o uuid
    /\ \A k \in ReaderLaunches :
           LET req == calls[k].arg[2]
           IN  /\ TuningRead(k).JobName = "" =>
                      \E hash \in Uuids :
                          req.cfg.JobName = "smt-reverse-replication-reader-" \o hash
               /\ TuningRead(k).JobName # "" => req.cfg.JobName = TuningRead(k).JobName
               /\ req.params.runIdentifier = "smt-job-" \o uuid
               /\ req.cfg.AdditionalUserLabels.kv["smt-reverse-replication-reader"] =
                      "smt-job-" \o uuid

C19_Witness ==
    /\ pc = "done"
    /\ retErr = Nil
    /\ rawRequest.JobName = ""
    /\ \E k \in ReaderLaunches :
           /\ TuningRead(k).JobName = ""
           /\ ~EmbedsRunId(calls[k].arg[2].cfg.JobName, uuid)

\* C20: UpdateSmtJobEntry, which sets the state RUNNING, is the last
\* activity: its Transaction is invoked only after the six Transactions
\* before it succeeded.  When it fails CreateWorkflow returns an error, no
\* Compensation has been invoked (the two pipelines stay launched) and the
\* record is not marked RUNNING; the record is never marked RUNNING in a run
\* in which a Transaction failed.
C20_RunningOnlyLast ==
    LET last    == Len(CatalogOrder)
        running == /\ Len(txResults) >= last
                   /\ txResults[last] = Nil
                   /\ activities[last].Input.State = "RUNNING"
    IN  /\ activities # << >> =>
               /\ Len(activities) = last
               /\ activities[last].name = "UpdateSmtJobEntry"
               /\ activities[last].Input.State = "RUNNING"
        /\ \A k \in 1..Len(txLog) :
               txLog[k] = "UpdateSmtJobEntry" =>
                   /\ k = last
                   /\ \A j \in 1..(last - 1) : txResults[j] = Nil
                   /\ activities[5].Output.JobId # ""
        /\ last \in FailedPositions =>
               /\ pc = "done"
               /\ retErr # Nil
               /\ txResults[5] = Nil /\ txResults[6] = Nil
               /\ compLog = << >>
               /\ ~running
        /\ FailedPositions # {} => ~running
        /\ pc = "panic" => ~running

C20_Witness ==
    /\ pc = "done"
    /\ Len(txLog) = 7
    /\ txLog[7] = "UpdateSmtJobEntry"
    /\ txResults[7] # Nil
    /\ retErr # Nil

\* C22 as claimed: in the tuning config every resolution leaves, each scalar
\* field the given config sets is what was given, and each scalar field it
\* leaves unset holds its default.
C22_DefaultsOnlyForUnset ==
    \A k \in 1..Len(resolutions) :
        \A f \in TuningScalars :
            IF UnsetScalar(tuningIn, f)
            THEN IsTuningDefault(f, resolutions[k].cfg[f])
            ELSE resolutions[k].cfg[f] = tuningIn[f]

\* C23 as claimed: from the config of an empty tuning blob, with project
\* p1, location us-central1 and run id abc, the resolutions leave configs
\* equal in every field but the job name, each with the streaming engine
\* enabled and use_runner_v2 among the experiments exactly once, and
\* resolving a resolved config again leaves it as it is.
C23_ResolverScenario ==
    (/\ tuningIn = ZeroTuningCfg(NilMap)
     /\ ambient = [project |-> "p1", location |-> "us-central1", runId |-> "abc"]) =>
        /\ \A j, k \in 1..Len(resolutions) :
               \A f \in DOMAIN tuningIn \ {"JobName"} :
                   resolutions[j].cfg[f] = resolutions[k].cfg[f]
        /\ \A k \in 1..Len(resolutions) :
               /\ resolutions[k].cfg.EnableStreamingEngine
               /\ Occurrences(resolutions[k].cfg.AdditionalExperiments,
                              "use_runner_v2") = 1
        /\ again # << >> => again[1].cfg = resolutions[1].cfg

\* C24 as claimed: every resolution completes without a fault, whether the
\* config has a label map or not, and leaves a label map that maps the key
\* of the reader to the job id and every other key to what it was mapped to.
C24_LabelMapAllocated ==
    \A k \in 1..Len(resolutions) :
        LET before == tuningIn.AdditionalUserLabels.kv
            after  == resolutions[k].cfg.AdditionalUserLabels
            key    == "smt-reverse-replication-reader"
        IN  /\ ~resolutions[k].panic
            /\ ~after.nil
            /\ DOMAIN after.kv = DOMAIN before \cup {key}
            /\ after.kv[key] = ambient.runId
            /\ \A other \in DOMAIN before \ {key} : after.kv[other] = before[other]

\* C25: the parameters of every reader launch hold the keys
\* shardingCustomJarPath and shardingCustomClassName exactly when the plugin
\* reference of the Input is non-empty, and then with the non-empty values
\* of the Input.
C25_NoEmptyPluginParams ==
    \A k \in ReaderLaunches :
        LET params  == calls[k].arg[2].params
            input   == activities[5].Input
            present == input.ShardingCustomJarPath # ""
        IN  /\ "shardingCustomJarPath" \in DOMAIN params <=> present
            /\ "shardingCustomClassName" \in DOMAIN params <=> present
            /\ present =>
                   /\ params.shardingCustomJarPath = input.ShardingCustomJarPath
                   /\ params.shardingCustomClassName = input.ShardingCustomClassName
                   /\ params.shardingCustomJarPath # ""
                   /\ params.shardingCustomClassName # ""

C25_Witness ==
    \E k \in ReaderLaunches :
        /\ rawRequest.ShardingCustomJarPath = "gs://b/p.jar"
        /\ calls[k].arg[2].params.shardingCustomJarPath = "gs://b/p.jar"
        /\ calls[k].arg[2].params.shardingCustomClassName = "Cls"

\* C26 as claimed: the Output of PrepareChangeStream and of
\* PrepareDataflowReader holds zero values until the Transaction has
\* returned, and still holds them when it returned an error.
C26_OutputOnlyOnSuccess ==
    activities # << >> =>
        /\ (Len(txResults) < 3 \/ txResults[3] # Nil) =>
               activities[3].Output = [Exists |-> FALSE,
                                       ExistsWithIncorrectOptions |-> FALSE,
                                       Created |-> FALSE]
        /\ (Len(txResults) < 5 \/ txResults[5] # Nil) =>
               activities[5].Output = [JobId |-> ""]

\* C26 amended: every Output field holds its zero value before execution,
\* and after a Transaction that returned an error too, with one exception:
\* PrepareChangeStream sets ExistsWithIncorrectOptions exactly when it fails
\* because the validation of an existing change stream returned an error.
\* Exists and Created are set only by a successful Transaction, and the
\* JobId of PrepareDataflowReader only after the launch call succeeded.
C26_OutputOnFailure ==
    activities # << >> =>
        LET cs     == activities[3].Output
            reader == activities[5].Output
            c      == ChangeStreamCalls
            validationFailed ==
                \E k \in 1..Len(c) :
                    c[k].fn = "ValidateChangeStreamOptions" /\ c[k].err # Nil
        IN  /\ Len(txResults) < 3 =>
                   ~cs.Exists /\ ~cs.ExistsWithIncorrectOptions /\ ~cs.Created
            /\ (Len(txResults) >= 3 /\ txResults[3] # Nil) =>
                   /\ ~cs.Exists /\ ~cs.Created
                   /\ cs.ExistsWithIncorrectOptions <=> validationFailed
            /\ (Len(txResults) >= 3 /\ txResults[3] = Nil) =>
                   ~cs.ExistsWithIncorrectOptions
            /\ (Len(txResults) < 5 \/ txResults[5] # Nil) => reader.JobId = ""
            /\ reader.JobId # "" =>
                   \E k \in ReaderLaunches :
                       calls[k].err = Nil /\ calls[k].ret = reader.JobId

C26_Witness ==
    /\ pc = "done"
    /\ Len(txResults) = 3
    /\ txResults[3] # Nil
    /\ activities[3].Output.ExistsWithIncorrectOptions

\* C29: after a successful normalization, when staging is marked
\* unnecessary none of the resolved session path, the resolved
\* source-connection path and the staging data directory lies in the
\* synthesized bucket; a path rewritten or defaulted lies in it, and
\* whenever one of the three lies in it staging is marked required and the
\* bucket name is that bucket's, which is what PrepareGcsBucket is given.
C29_StagingLocationPrepared ==
    LET bucket == "smt-rr-gcs-" \o uuid
        under(path) == HasPrefix(path, "gs://" \o bucket \o "/")
        paths == {request.SessionFileGcsPath,
                  request.SourceConnectionConfigGcsPath,
                  request.GcsDataDirectory}
    IN  /\ Normalized =>
               /\ ~request.IsSMTBucketRequired => \A path \in paths : ~under(path)
               /\ ~HasPrefix(rawRequest.SessionFilePath, "gs://") =>
                      under(request.SessionFileGcsPath)
               /\ ~HasPrefix(rawRequest.SourceConnectionConfig, "gs://") =>
                      under(request.SourceConnectionConfigGcsPath)
               /\ rawRequest.GcsDataDirectory = "" => under(request.GcsDataDirectory)
               /\ (\E path \in paths : under(path)) =>
                      /\ request.IsSMTBucketRequired
                      /\ request.SmtBucketName = bucket
                      /\ request.SmtBucketName # ""
        /\ activities # << >> =>
               /\ activities[2].name = "PrepareGcsBucket"
               /\ activities[2].Input.IsSMTBucketRequired = request.IsSMTBucketRequired
               /\ activities[2].Input.SmtBucketName = request.SmtBucketName

C29_Witness ==
    /\ activities # << >>
    /\ HasPrefix(rawRequest.SessionFilePath, "gs://")
    /\ HasPrefix(rawRequest.SourceConnectionConfig, "gs://")
    /\ rawRequest.GcsDataDirectory = ""
    /\ activities[2].Input.IsSMTBucketRequired
    /\ activities[5].Input.GcsOutputDirectory =
           "gs://" \o activities[2].Input.SmtBucketName \o "/reverse-replication/data"

\* C30: at most one of the flags Exists, ExistsWithIncorrectOptions and
\* Created of PrepareChangeStream is true; Created only after a creation
\* call that succeeded, Exists only after the change stream was found and
\* its options validated, ExistsWithIncorrectOptions only after it was found
\* and the validation failed; after a successful Transaction exactly one of
\* Exists and Created is true.
C30_ChangeStreamFlags ==
    activities # << >> =>
        LET o == activities[3].Output
            c == ChangeStreamCalls
            found == Len(c) >= 2 /\ c[1].err = Nil /\ c[1].ret
                     /\ c[2].fn = "ValidateChangeStreamOptions"
        IN  /\ Cardinality({f \in DOMAIN o : o[f]}) <= 1
            /\ o.Created =>
                   \E k \in 1..Len(c) :
                       c[k].fn = "CreateChangeStreamSMTResource" /\ c[k].err = Nil
            /\ o.Exists => found /\ c[2].err = Nil
            /\ o.ExistsWithIncorrectOptions => found /\ c[2].err # Nil
            /\ (Len(txResults) >= 3 /\ txResults[3] = Nil) =>
                   /\ o.Exists # o.Created
                   /\ ~o.ExistsWithIncorrectOptions

C30_Witness ==
    /\ Len(txResults) >= 3
    /\ txResults[3] = Nil
    /\ activities[3].Output.Created
    /\ ~activities[3].Output.Exists

\* the callers that have completed at least one call of Stop
StopReturned == {t \in Stoppers : stopCalls[t] >= 1}

\* C27: over any number of sequential or concurrent calls of Stop on one
\* Emulator the subprocess is released at most once and killed at most once;
\* once a call of Stop has returned the field cmd is nil; when the Emulator
\* came from Start, whose subprocess was running, the subprocess has then
\* been released and killed exactly once; on an Emulator without a
\* subprocess Stop releases and kills nothing and leaves cmd and the process
\* as they were.
C27_StopOnlyOnce ==
    /\ emuReleases <= 1
    /\ emuKills <= 1
    /\ StopReturned # {} =>
           /\ emuCmd = "nil"
           /\ onceDone
           /\ emuStartPc = "returned" =>
                  emuReleases = 1 /\ emuKills = 1 /\ emuProcess = "killed"
    /\ emuStartPc = "zero" =>
           /\ emuReleases = 0
           /\ emuKills = 0
           /\ emuCmd = "nil"
           /\ emuProcess = "none"

\* every caller has called Stop on a started Emulator, one of them twice in
\* a row, and the subprocess was killed
C27_Witness ==
    /\ emuStartPc = "returned"
    /\ StopReturned = Stoppers
    /\ \E t \in Stoppers : stopCalls[t] = MaxStopCalls
    /\ emuKills = 1
    /\ emuCmd = "nil"

\* C28: when starting the subprocess or waiting for readiness fails, Start
\* does not fault, returns a nil Emulator and a non-nil error, and a
\* subprocess it had started is not left running; Start returns a non-nil
\* Emulator only after the readiness check succeeded.
C28_StartCleansUpOnFailure ==
    /\ emuStartPc # "panic"
    /\ (emuErr # Nil /\ emuStartPc \notin {"failed", "subprocess", "wait"}) =>
           /\ emuRet # "none"
           /\ emuRet.emu = Nil
           /\ emuRet.err # Nil
           /\ emuProcess # "running"
    /\ (emuRet # "none" /\ emuRet.emu # Nil) =>
           /\ emuErr = Nil
           /\ emuRet.err = Nil
           /\ emuCmd \in {"running", "nil"}

\* no external call of the invocation has failed so far: every accessor call
\* made returned a nil error and every Transaction that returned returned nil
NoCallFailed ==
    /\ \A k \in 1..Len(calls) : calls[k].err = Nil
    /\ \A k \in 1..Len(txResults) : txResults[k] = Nil

\* C21: in a re-run of CreateWorkflow with the same request, after an
\* invocation that failed at an activity, in which no external call fails,
\* no Transaction faults and the invocation, once over, has returned nil;
\* a change stream the failed invocation left in place is found, makes
\* PrepareChangeStream succeed and is not created a second time.
C21_RerunCompletes ==
    (invocation = 2 /\ NoCallFailed) =>
        /\ pc # "panic"
        /\ pc = "done" => retErr = Nil
        /\ (Len(txResults) >= 3
            /\ activities[3].Input.ChangeStreamName \in provisioned) =>
               /\ activities[3].Output.Exists
               /\ ~activities[3].Output.Created
               /\ \A k \in 1..Len(calls) :
                      calls[k].fn # "CreateChangeStreamSMTResource"

\* the fields the second application of validateAndUpdateJobData changed
ChangedByRenormalizing ==
    {f \in DOMAIN request : request[f] # renormalized.before[f]}

\* C31: validateAndUpdateJobData applied a second time, with the same run
\* identifier and the same lookup result, to a request it has normalized
\* successfully returns nil again and changes no field of the request.
C31_NormalizationIdempotent ==
    renormalized.done =>
        /\ renormalized.err = Nil
        /\ ChangedByRenormalizing = {}
====
